---- MODULE Spec2Model ----
(***************************************************************************)
(* Turn-based battle simulator: BattleLogic (src/src/battle/BattleLogic.ts) *)
(* driven through BattleEngine.start / step / runToEnd, with the ledger of *)
(* BuffSystem (src/src/game/assetManifest.ts) and a skill rule table.      *)
(*                                                                         *)
(* Numbers: ratios and thresholds of the rule table are held in percent    *)
(* (0.5 is 50), the value returned by rng() in hundredths (0.6 is 60).     *)
(***************************************************************************)
EXTENDS Integers, Sequences, FiniteSets, TLC

VARIABLES
  round,          \* BattleLogic.round
  over,           \* BattleLogic.over
  teamA,          \* BattleLogic.teamA : sequence of FighterSnapshot
  teamB,          \* BattleLogic.teamB
  shieldById,     \* BattleLogic.shieldById : id -> shield pool
  skillCooldowns, \* BattleLogic.skillCooldowns : id -> (skillId -> rounds)
  statsById,      \* BattleLogic.statsById : id -> UnitStats counters
  buffMap,        \* BuffSystem.map : id -> sequence of BuffInstance
  log,            \* BattleEngine.log : the events emitted since start()
  pc,             \* position of the running call: idle, loop, stepRound, actors
  call,           \* the API call running (or the last one that returned)
  runI,           \* runToEnd: loop counter i
  runMax,         \* runToEnd: argument maxRounds
  actors,         \* stepRound: the acting order (ids), computed at round start
  idx,            \* stepRound: position in actors
  setup,          \* the BattleSetup the host holds (BattleScene.ts:183)
  casts,          \* history: one record per recordSkillCast call
  hits,           \* history: the dealDamage calls of the last step
  lastAction,     \* history: what the last actor turn resolved
  prev,           \* history: the battle as it was before the last step
  entry,          \* history: the battle when step() was called
  applied,        \* history: the direct calls of addBuff, dealDamage, heal, applyShield
  eventLogCopy,   \* the array the host got from its last getEventLog() call
  stepAcc,        \* BattleEngine.stepAcc : the dt accumulated since the last step
  ticks           \* history: the dt of the update() calls since start()

vars == <<round, over, teamA, teamB, shieldById, skillCooldowns, statsById,
          buffMap, log, pc, call, runI, runMax, actors, idx, setup, casts,
          hits, lastAction, prev, entry, applied, eventLogCopy,
          stepAcc, ticks>>

\* ------------------------------------------------------------------ bounds

MaxFighters == 3
MaxRoundsArg == 2
MaxHostEdits == 1
HostFighters == 2
MaxLedgerCalls == 3
MaxLedgerRound == 2
MaxEffectCalls == 1

\* the host edits an array it got from getEventLog() at most this often
MaxCopyEdits == 1

\* the host calls getEventLog() at most this often
MaxLogReads == 2

\* the host calls emit() at most this often in a battle
MaxHostEmits == 1

\* init() is called on the logic while the log holds at most this many battleStart
MaxDirectInits == 1

\* DirectSpec: the log, which init() never empties, holds at most this many events
\* when a step is called
MaxDirectLog == 48

\* the stepIntervalTicks the engine is constructed with
StepIntervalTicks == 3

\* the update() calls of a battle are followed up to this sum of dt
MaxTicks == 24

\* ------------------------------------------------------- program constants

RoundCap == 30
DefaultMaxRounds == 30
damageVarianceMin == 85
damageVarianceMax == 115
DefaultMaxStacks == 99
FrontSlots == 2

\* ----------------------------------------------------------------- helpers

Max(a, b) == IF a >= b THEN a ELSE b
Min(a, b) == IF a <= b THEN a ELSE b

EmptyMap == [x \in {} |-> 0]
MapPut(m, k, v) == [x \in (DOMAIN m) \cup {k} |-> IF x = k THEN v ELSE m[x]]
MapRemove(m, k) == [x \in (DOMAIN m) \ {k} |-> m[x]]
MapGet(m, k, dflt) == IF k \in DOMAIN m THEN m[k] ELSE dflt

\* floor(x * pct / 100)
Pct(x, pct) == (x * pct) \div 100

\* the pairs of positions <<i, j>> of s
Pairs(s) == (DOMAIN s) \X (DOMAIN s)

\* Array.prototype.sort, a stable sort; before holds the pairs of positions
\* <<i, j>> for which the comparator puts s[i] before s[j] (a negative result)
SortBy(s, before) ==
  LET n == Len(s)
      pos(i) == Cardinality({j \in 1..n : \/ <<j, i>> \in before
                                          \/ (<<i, j>> \notin before /\ j < i)}) + 1
  IN  [k \in 1..n |-> s[CHOOSE i \in 1..n : pos(i) = k]]

\* String.localeCompare on the ids of the rosters.
IdRank(id) ==
  LET IdOrder == <<"a1", "a2", "a3", "a4", "a5", "b1", "b2", "b3", "b4", "b5">>
  IN  CHOOSE i \in DOMAIN IdOrder : IdOrder[i] = id
localeCompare(x, y) == IdRank(x) - IdRank(y)

\* ------------------------------------------------------------- rule tables

\* registerDefaultBuffs
BuffRegistry ==
  [taunt |-> [durationRounds |-> 2],
   burn  |-> [durationRounds |-> 3]]

\* SKILL_MAP: skill id -> SkillConfig
SKILL_MAP ==
  [guard   |-> [id |-> "guard", kind |-> "active", cooldown |-> 3,
                target |-> "self", effect |-> "apply_buff",
                params |-> [buffId |-> "taunt", duration |-> 3, shieldRatio |-> 50]],
   mend    |-> [id |-> "mend", kind |-> "active", cooldown |-> 3,
                target |-> "ally_single", effect |-> "heal",
                params |-> [ratio |-> 100]],
   execute |-> [id |-> "execute", kind |-> "active", cooldown |-> 2,
                target |-> "enemy_single", effect |-> "damage",
                params |-> [ratio |-> 150, executeThreshold |-> 50,
                            executeMultiplier |-> 200]],
   cleave  |-> [id |-> "cleave", kind |-> "active", cooldown |-> 2,
                target |-> "enemy_aoe", effect |-> "damage",
                params |-> [ratio |-> 100, maxTargets |-> 2]],
   ignite  |-> [id |-> "ignite", kind |-> "active", cooldown |-> 3,
                target |-> "enemy_aoe", effect |-> "apply_dot",
                params |-> [ratio |-> 200, duration |-> 1, buffId |-> "burn"]],
   barrier |-> [id |-> "barrier", kind |-> "active", cooldown |-> 3,
                target |-> "self", effect |-> "shield",
                params |-> [ratio |-> 25]],
   aura    |-> [id |-> "aura", kind |-> "passive", cooldown |-> 0,
                target |-> "self", effect |-> "heal",
                params |-> [ratio |-> 50]]]

\* skill.params?.name ?? dflt
Param(skill, name, dflt) ==
  IF name \in DOMAIN skill.params THEN skill.params[name] ELSE dflt

NoSkill == ""
NoFighter == [id |-> "", hp |-> 0]

\* ------------------------------------------------------------- BuffSystem

\* BuffSystem.init: one container per fighter, holding its initial buffs
BuffSystem_init(fighters) ==
  [fid \in {fighters[i].id : i \in DOMAIN fighters} |->
     LET f == fighters[CHOOSE i \in DOMAIN fighters :
                         /\ fighters[i].id = fid
                         /\ \A j \in (i + 1)..Len(fighters) : fighters[j].id # fid]
     IN  [k \in DOMAIN f.buffs |-> [id |-> f.buffs[k], stacks |-> 1]]]

\* BuffSystem.getBuffs
BuffSystem_getBuffs(map, fighterId) == MapGet(map, fighterId, <<>>)

SetExpiry(inst, r) == [id |-> inst.id, stacks |-> inst.stacks, expiresRound |-> r]

\* BuffSystem.addBuff(sourceId, targetId, buffId, stacks, currentRound) of a
\* BuffSystem constructed with the registry reg
BuffSystem_addBuffIn(reg, map, sourceId, targetId, buffId, stacks, currentRound) ==
  LET hasDef == buffId \in DOMAIN reg
      hasDuration == hasDef /\ "durationRounds" \in DOMAIN reg[buffId]
      list == MapGet(map, targetId, <<>>)
      found == {i \in DOMAIN list : list[i].id = buffId}
      stamp(inst) == IF hasDuration
                     THEN SetExpiry(inst, currentRound + reg[buffId].durationRounds)
                     ELSE inst
      max == IF hasDef /\ "maxStacks" \in DOMAIN reg[buffId]
             THEN reg[buffId].maxStacks ELSE DefaultMaxStacks
      next ==
        IF found # {}
        THEN LET e == CHOOSE i \in found : \A j \in found : i <= j
             IN  [list EXCEPT ![e] =
                    stamp([@ EXCEPT !.stacks = Min(max, @ + stacks)])]
        ELSE Append(list, stamp([id |-> buffId, stacks |-> Max(1, stacks)]))
  IN  MapPut(map, targetId, next)

\* the BuffSystem of BattleLogic, constructed with this.buffRegistry
BuffSystem_addBuff(map, sourceId, targetId, buffId, stacks, currentRound) ==
  BuffSystem_addBuffIn(BuffRegistry, map, sourceId, targetId, buffId, stacks,
                       currentRound)

\* BuffSystem.removeBuff
BuffSystem_removeBuff(map, targetId, buffId) ==
  IF targetId \notin DOMAIN map THEN map
  ELSE MapPut(map, targetId, SelectSeq(map[targetId], LAMBDA inst : inst.id # buffId))

\* faulty variant: an instance lives through the round it expires in
BuffSystem_onRoundStart_mut(map, r) ==
  [fid \in DOMAIN map |->
     SelectSeq(map[fid], LAMBDA inst : \/ "expiresRound" \notin DOMAIN inst
                                       \/ inst.expiresRound >= r)]

\* BuffSystem.onRoundStart
BuffSystem_onRoundStart(map, r) ==
  [fid \in DOMAIN map |->
     SelectSeq(map[fid], LAMBDA inst : \/ "expiresRound" \notin DOMAIN inst
                                       \/ inst.expiresRound > r)]

\* ------------------------------------------- BattleLogic: effect application
\* A battle value b is the record of the fields of BattleLogic (and the log).

Fighters(b) == b.teamA \o b.teamB

HasFighter(b, id) == \E i \in DOMAIN Fighters(b) : Fighters(b)[i].id = id

findFighter(b, id) ==
  LET all == Fighters(b)
  IN  IF HasFighter(b, id)
      THEN all[CHOOSE i \in DOMAIN all :
                 all[i].id = id /\ \A j \in 1..(i - 1) : all[j].id # id]
      ELSE NoFighter

\* the assignment target.hp = v on the object findFighter returned
SetHp(b, id, v) ==
  LET upd(team) == [i \in DOMAIN team |->
                      IF team[i].id = id THEN [team[i] EXCEPT !.hp = v] ELSE team[i]]
  IN  [b EXCEPT !.teamA = upd(@), !.teamB = upd(@)]

emit(b, e) == [b EXCEPT !.log = Append(@, e)]

AddStat(stats, id, field, n) ==
  IF id \in DOMAIN stats THEN [stats EXCEPT ![id][field] = @ + n] ELSE stats

\* faulty variant: only the unknown target is turned away
NoLivingTarget_mut(b, targetId) == ~HasFighter(b, targetId)

\* "!target || target.hp <= 0": the guard of dealDamage, heal and applyShield
NoLivingTarget(b, targetId) ==
  ~HasFighter(b, targetId) \/ findFighter(b, targetId).hp <= 0

\* faulty variant: the shield pool is passed over
absorbedBy_mut(shield, raw) == 0

\* Math.min(shield, remaining) when a shield is up
absorbedBy(shield, raw) == IF shield > 0 THEN Min(shield, raw) ELSE 0

\* target.hp = Math.max(0, target.hp - remaining) when remaining > 0
hpAfterDamage(hp, remaining) == IF remaining > 0 THEN Max(0, hp - remaining) ELSE hp

\* faulty variant: a death goes unnoticed
Died_mut(hp) == FALSE

\* "if (target.hp <= 0)" after the hit
Died(hp) == hp <= 0

\* faulty variant: a damage event for every hit
EmitsDamage_mut(remaining) == TRUE

\* "if (remaining > 0)" before the damage event
EmitsDamage(remaining) == remaining > 0

dealDamage(b, sourceId, targetId, amount) ==
  IF NoLivingTarget(b, targetId) THEN b
  ELSE
    LET target == findFighter(b, targetId)
        raw == Max(1, amount)
        shield == MapGet(b.shieldById, targetId, 0)
        absorbed == absorbedBy(shield, raw)
        remaining == raw - absorbed
        nextShield == shield - absorbed
        shields1 == IF shield > 0
                    THEN IF nextShield > 0
                         THEN MapPut(b.shieldById, targetId, nextShield)
                         ELSE MapRemove(b.shieldById, targetId)
                    ELSE b.shieldById
        hp1 == hpAfterDamage(target.hp, remaining)
        stats1 == AddStat(b.statsById, sourceId, "damageDealt", raw)
        stats2 == AddStat(stats1, targetId, "damageTaken", Max(0, remaining))
        stats3 == IF Died(hp1) THEN AddStat(stats2, sourceId, "kills", 1) ELSE stats2
        evDamage == [type |-> "damage", sourceId |-> sourceId, targetId |-> targetId,
                     amount |-> remaining, targetHp |-> hp1,
                     targetMaxHp |-> target.maxHp]
        evDead == [type |-> "dead", targetId |-> targetId]
        log1 == IF EmitsDamage(remaining) THEN Append(b.log, evDamage) ELSE b.log
        log2 == IF Died(hp1) THEN Append(log1, evDead) ELSE log1
        hit == [sourceId |-> sourceId, targetId |-> targetId, raw |-> raw,
                hpBefore |-> target.hp, shieldBefore |-> shield]
    IN  [SetHp(b, targetId, hp1) EXCEPT
           !.shieldById = shields1, !.statsById = stats3, !.log = log2,
           !.hits = Append(@, hit)]

\* faulty variant: the heal is not cut at maxHp
hpAfterHeal_mut(hp, maxHp, a) == hp + a

\* target.hp = Math.min(target.maxHp, target.hp + a)
hpAfterHeal(hp, maxHp, a) == Min(maxHp, hp + a)

heal(b, sourceId, targetId, amount) ==
  IF NoLivingTarget(b, targetId) THEN b
  ELSE
    LET target == findFighter(b, targetId)
        a == Max(1, amount)
        hp1 == hpAfterHeal(target.hp, target.maxHp, a)
    IN  [SetHp(b, targetId, hp1) EXCEPT
           !.statsById = AddStat(@, sourceId, "healingDone", a),
           !.log = Append(@, [type |-> "heal", sourceId |-> sourceId,
                              targetId |-> targetId, amount |-> a,
                              targetHp |-> hp1, targetMaxHp |-> target.maxHp])]

applyShield(b, sourceId, targetId, amount) ==
  IF NoLivingTarget(b, targetId) THEN b
  ELSE
    LET a == Max(1, amount)
    IN  [b EXCEPT
           !.shieldById = MapPut(@, targetId, MapGet(@, targetId, 0) + a),
           !.statsById = AddStat(@, sourceId, "shieldsApplied", a)]

\* addBuff(sourceId, targetId, buffId, stacks, durationRounds, data): the options
\* object is a sixth argument, which BuffSystem.addBuff does not take.
addBuff(b, sourceId, targetId, buffId, stacks, opts) ==
  emit([b EXCEPT !.buffMap =
          BuffSystem_addBuff(@, sourceId, targetId, buffId, stacks, b.round)],
       [type |-> "buffAdd", sourceId |-> sourceId, targetId |-> targetId,
        buffId |-> buffId, stacks |-> stacks])

hasBuff(b, targetId, buffId) ==
  LET list == BuffSystem_getBuffs(b.buffMap, targetId)
  IN  \E i \in DOMAIN list : list[i].id = buffId

recordSkillCast(b, sourceId, skillId) ==
  IF sourceId \notin DOMAIN b.statsById THEN b
  ELSE [b EXCEPT
          !.statsById[sourceId].skillCasts = @ + 1,
          !.statsById[sourceId].skillCastsById =
             MapPut(@, skillId, MapGet(@, skillId, 0) + 1),
          !.casts = Append(@, [round |-> b.round, actorId |-> sourceId,
                               skillId |-> skillId])]

getCooldown(b, actorId, skillId) ==
  MapGet(MapGet(b.skillCooldowns, actorId, EmptyMap), skillId, 0)

setCooldown(b, actorId, skillId, value) ==
  [b EXCEPT !.skillCooldowns =
     MapPut(@, actorId, MapPut(MapGet(@, actorId, EmptyMap), skillId, Max(0, value)))]

\* faulty variant: cooldowns run down two rounds at a time
reduceCooldowns_mut(b) ==
  [b EXCEPT !.skillCooldowns =
     [a \in DOMAIN @ |-> [s \in DOMAIN @[a] |-> Max(0, @[a][s] - 2)]]]

reduceCooldowns(b) ==
  [b EXCEPT !.skillCooldowns =
     [a \in DOMAIN @ |-> [s \in DOMAIN @[a] |-> Max(0, @[a][s] - 1)]]]

finish(b, winner) ==
  IF b.over THEN b
  ELSE emit([b EXCEPT !.over = TRUE], [type |-> "battleEnd", winner |-> winner])

Alive(team) == SelectSeq(team, LAMBDA f : f.hp > 0)

\* faulty variant: the end of the battle is not looked for
checkBattleEnd_mut(b) == b

checkBattleEnd(b) ==
  LET aAlive == Alive(b.teamA) # <<>>
      bAlive == Alive(b.teamB) # <<>>
  IN  IF aAlive /\ bAlive THEN b
      ELSE IF aAlive /\ ~bAlive THEN finish(b, "A")
      ELSE IF ~aAlive /\ bAlive THEN finish(b, "B")
      ELSE finish(b, "Draw")

getAllAlive(b) == Alive(Fighters(b))

\* ------------------------------------------------ targeting and selection

\* a.hp / a.maxHp - b.hp / b.maxHp, compared with 0 (maxHp > 0)
FracLess(x, y) == x.hp * y.maxHp < y.hp * x.maxHp
FracEq(x, y) == x.hp * y.maxHp = y.hp * x.maxHp

\* faulty variant: among equals the first of the list, whatever its id
pickLowestHp_mut(list) ==
  SortBy(list, {p \in Pairs(list) : FracLess(list[p[1]], list[p[2]])})[1]

pickLowestHp(list) ==
  SortBy(list, {p \in Pairs(list) :
                  LET x == list[p[1]]
                      y == list[p[2]]
                  IN  FracLess(x, y)
                      \/ (FracEq(x, y) /\ localeCompare(x.id, y.id) < 0)})[1]

\* faulty variant: the last living unit of the front line
pickFrontTarget_mut(alive, fullTeam) ==
  LET frontline == Alive(SubSeq(fullTeam, 1, Min(FrontSlots, Len(fullTeam))))
  IN  IF frontline # <<>> THEN frontline[Len(frontline)]
      ELSE IF alive # <<>> THEN alive[1] ELSE NoFighter

pickFrontTarget(alive, fullTeam) ==
  LET frontline == Alive(SubSeq(fullTeam, 1, Min(FrontSlots, Len(fullTeam))))
  IN  IF frontline # <<>> THEN frontline[1]
      ELSE IF alive # <<>> THEN alive[1] ELSE NoFighter

\* faulty variant: the front line is not put first
orderByFrontline_mut(alive, fullTeam) ==
  SortBy(alive, {p \in Pairs(alive) :
                   localeCompare(alive[p[1]].id, alive[p[2]].id) < 0})

orderByFrontline(alive, fullTeam) ==
  LET front == SubSeq(fullTeam, 1, Min(FrontSlots, Len(fullTeam)))
      frontIds == {front[i].id : i \in DOMAIN front}
      rank(t) == IF t.id \in frontIds THEN 0 ELSE 1
  IN  SortBy(alive, {p \in Pairs(alive) :
                       LET x == alive[p[1]]
                           y == alive[p[2]]
                       IN  rank(x) < rank(y)
                           \/ (rank(x) = rank(y) /\ localeCompare(x.id, y.id) < 0)})

\* faulty variant: the dead are not filtered out
TargetCandidates_mut(enemyTeam) == enemyTeam

\* the candidates selectTarget considers: enemyTeam.filter((t) => t.hp > 0)
TargetCandidates(enemyTeam) == Alive(enemyTeam)

\* faulty variant: taunt is not looked at
Taunting_mut(b, list) == <<>>

Taunting(b, list) == SelectSeq(list, LAMBDA t : hasBuff(b, t.id, "taunt"))

selectTarget(b, actor, enemyTeam) ==
  LET alive == TargetCandidates(enemyTeam)
      taunt == Taunting(b, alive)
  IN  IF alive = <<>> THEN NoFighter
      ELSE IF taunt # <<>> THEN taunt[1]
      ELSE CASE actor.heroClass = "assassin" -> pickLowestHp(alive)
             [] actor.heroClass \in {"warrior", "tank"} -> pickFrontTarget(alive, enemyTeam)
             [] actor.heroClass \in {"mage", "support"} -> pickFrontTarget(alive, enemyTeam)
             [] OTHER -> alive[1]

selectHealTarget(actor, allyTeam) ==
  LET candidates == SelectSeq(allyTeam, LAMBDA t : t.hp > 0 /\ t.hp < t.maxHp)
  IN  IF candidates = <<>> THEN NoFighter ELSE pickLowestHp(candidates)

\* faulty variant: the dead are among the targets
selectAoeTargets_mut(b, actor, enemyTeam, maxTargets) ==
  IF maxTargets > 0 THEN SubSeq(enemyTeam, 1, Min(maxTargets, Len(enemyTeam)))
  ELSE enemyTeam

\* maxTargets = 0 stands for "not given"
selectAoeTargets(b, actor, enemyTeam, maxTargets) ==
  LET alive == Alive(enemyTeam)
      taunts == Taunting(b, alive)
      ordered == IF actor.heroClass = "assassin"
                 THEN SortBy(alive, {p \in Pairs(alive) :
                                       FracLess(alive[p[1]], alive[p[2]])})
                 ELSE orderByFrontline(alive, enemyTeam)
      rest == SelectSeq(ordered, LAMBDA t : \A i \in DOMAIN taunts : taunts[i].id # t.id)
      list == taunts \o rest
  IN  IF alive = <<>> THEN <<>>
      ELSE IF maxTargets > 0 THEN SubSeq(list, 1, Min(maxTargets, Len(list)))
      ELSE list

EnemyTeam(b, actor) == IF actor.side = "A" THEN b.teamB ELSE b.teamA
AllyTeam(b, actor) == IF actor.side = "A" THEN b.teamA ELSE b.teamB

resolveSkillTargets(b, actor, skill) ==
  CASE skill.target = "self" -> <<actor>>
    [] skill.target = "ally_single" ->
         LET t == selectHealTarget(actor, Alive(AllyTeam(b, actor)))
         IN  IF t = NoFighter THEN <<>> ELSE <<t>>
    [] skill.target = "enemy_single" ->
         LET t == selectTarget(b, actor, EnemyTeam(b, actor))
         IN  IF t = NoFighter THEN <<>> ELSE <<t>>
    [] skill.target = "enemy_aoe" ->
         selectAoeTargets(b, actor, EnemyTeam(b, actor),
                          Max(0, Param(skill, "maxTargets", 0)))
    [] OTHER -> <<>>

\* ---------------------------------------------------------- skill resolver

\* faulty variant: the first skill of the actor is cast whenever the table has it
pickSkill_mut(b, actor) ==
  IF actor.skills # <<>> /\ actor.skills[1] \in DOMAIN SKILL_MAP
  THEN actor.skills[1] ELSE NoSkill

pickSkill(b, actor) ==
  LET skillId == IF actor.skills = <<>> THEN NoSkill ELSE actor.skills[1]
      known == skillId \in DOMAIN SKILL_MAP
      skill == SKILL_MAP[skillId]
      aliveEnemies == Alive(EnemyTeam(b, actor))
      aliveAllies == Alive(AllyTeam(b, actor))
  IN  IF skillId = NoSkill THEN NoSkill
      ELSE IF ~known \/ skill.kind # "active" THEN NoSkill
      ELSE IF getCooldown(b, actor.id, skillId) > 0 THEN NoSkill
      ELSE CASE actor.heroClass = "support" ->
                  IF selectHealTarget(actor, aliveAllies) # NoFighter
                  THEN skillId ELSE NoSkill
             [] actor.heroClass = "tank" ->
                  IF hasBuff(b, actor.id, "taunt") THEN NoSkill ELSE skillId
             [] actor.heroClass = "assassin" ->
                  IF \E i \in DOMAIN aliveEnemies :
                       aliveEnemies[i].hp * 100
                         <= Param(skill, "executeThreshold", 35) * aliveEnemies[i].maxHp
                  THEN skillId ELSE NoSkill
             [] actor.heroClass \in {"warrior", "mage"} ->
                  IF Len(aliveEnemies) >= 2 THEN skillId ELSE NoSkill
             [] OTHER -> skillId

\* the body of one "for (const target of targets)" loop of castSkill, on one target
effectOn(b, actor, skill, loop, tid) ==
  LET t == findFighter(b, tid)
  IN  CASE loop = "damage" ->
             LET baseRatio == Param(skill, "ratio", 100)
                 threshold == Param(skill, "executeThreshold", -1)
                 mult == Param(skill, "executeMultiplier", 100)
                 exec == threshold > 0 /\ t.hp * 100 <= threshold * t.maxHp
                 dmg == IF exec THEN (actor.atk * baseRatio * mult) \div 10000
                        ELSE Pct(actor.atk, baseRatio)
             IN  dealDamage(b, actor.id, tid, Max(1, dmg))
        [] loop = "heal" ->
             heal(b, actor.id, tid, Max(1, Pct(t.maxHp, Param(skill, "ratio", 25))))
        [] loop = "shield" ->
             applyShield(b, actor.id, tid, Max(1, Pct(t.maxHp, Param(skill, "ratio", 20))))
        [] loop = "buff" ->
             LET duration == Param(skill, "duration", 0)
             IN  addBuff(b, actor.id, tid, Param(skill, "buffId", ""), 1,
                         IF duration > 0 THEN [durationRounds |-> duration] ELSE EmptyMap)
        [] loop = "buffShield" ->
             applyShield(b, actor.id, tid,
                         Max(1, Pct(t.maxHp, Param(skill, "shieldRatio", 0))))
        [] loop = "dot" ->
             addBuff(b, actor.id, tid, Param(skill, "buffId", "burn"), 1,
                     [durationRounds |-> Param(skill, "duration", 2) + 1,
                      data |-> [damagePerRound |->
                                  Max(1, Pct(actor.atk, Param(skill, "ratio", 40)))]])

RECURSIVE forEachTarget(_, _, _, _, _)
forEachTarget(b, actor, skill, loop, targets) ==
  IF targets = <<>> THEN b
  ELSE forEachTarget(effectOn(b, actor, skill, loop, Head(targets).id),
                     actor, skill, loop, Tail(targets))

\* the effect switch of castSkill, after the cast was recorded
applyEffect(b, actor, skill, targets) ==
  CASE skill.effect = "damage" -> forEachTarget(b, actor, skill, "damage", targets)
    [] skill.effect = "heal" -> forEachTarget(b, actor, skill, "heal", targets)
    [] skill.effect = "shield" -> forEachTarget(b, actor, skill, "shield", targets)
    [] skill.effect = "apply_buff" ->
         LET b1 == IF Param(skill, "buffId", "") # ""
                   THEN forEachTarget(b, actor, skill, "buff", targets) ELSE b
         IN  IF Param(skill, "shieldRatio", 0) > 0
             THEN forEachTarget(b1, actor, skill, "buffShield", targets) ELSE b1
    [] skill.effect = "apply_dot" -> forEachTarget(b, actor, skill, "dot", targets)
    [] OTHER -> b

\* castSkill: the battle after the cast; unchanged when no target was resolved
castSkill(b, actor, skill) ==
  LET targets == resolveSkillTargets(b, actor, skill)
      b1 == recordSkillCast(b, actor.id, skill.id)
      cooldown == Max(0, IF "cooldown" \in DOMAIN skill THEN skill.cooldown ELSE 0)
      b2 == IF cooldown > 0 THEN setCooldown(b1, actor.id, skill.id, cooldown) ELSE b1
  IN  IF targets = <<>> THEN b ELSE applyEffect(b2, actor, skill, targets)

\* faulty variant: a cast without target counts as made
castSucceeds_mut(b, actor, skill) == TRUE

castSucceeds(b, actor, skill) == resolveSkillTargets(b, actor, skill) # <<>>

\* variance = min + rng() * (max - min), times 10000; r is rng() in hundredths
Variance(r) == damageVarianceMin * 100 + r * (damageVarianceMax - damageVarianceMin)

\* faulty variant: the variance is always the lowest
basicDamage_mut(actor, r) == Max(1, Pct(actor.atk, damageVarianceMin))

\* the variance is computed in doubles: VarianceError[r + 1] is the double
\* 0.85 + (r / 100) * (1.15 - 0.85) minus the exact (8500 + 30 r) / 10000, in
\* units of 2^-53 / 10000, for r = 0 .. 99
VarianceError ==
  <<
     -2000, -1760, -1520, -1280, -1040, -800, -560, -320, -80, 160,
     400, 640, 880, 1120, 1360, 1600, -8160, 2080, -7680, -7440,
     -7200, -6960, -6720, -6480, -6240, -6000, -5760, -5520, -5280, -5040,
     -4800, -4560, -4320, -4080, -3840, -3600, -3360, -3120, -2880, -2640,
     -2400, -2160, -1920, -1680, -1440, -1200, -960, -10720, -480, -10240,
     0, -9760, 480, -9280, 960, -8800, 1440, -8320, 1920, -7840,
     2400, -7360, 2880, -6880, -16640, -6400, 3840, -5920, -15680, -5440,
     -15200, -4960, -14720, -4480, -14240, -4000, -13760, -3520, -13280, -3040,
     -12800, -2560, -12320, -2080, -11840, -1600, -11360, -1120, -10880, -640,
     -10400, -160, -9920, 320, -9440, -19200, -8960, 1280, -8480, -18240 >>

\* the least power of two, from p on, that is not below n
RECURSIVE PowerOfTwoFrom(_, _)
PowerOfTwoFrom(p, n) == IF p >= n THEN p ELSE PowerOfTwoFrom(2 * p, n)

\* the double atk * variance lies below the integer n that the exact product is:
\* the error outweighs half the gap between n and the double before it
FallsShort(atk, r, n) ==
  /\ n >= 1
  /\ (atk * Variance(r)) % 10000 = 0
  /\ atk * (0 - VarianceError[r + 1]) > 5000 * PowerOfTwoFrom(1, n)

\* Math.max(1, Math.floor(actor.atk * variance))
basicDamage(actor, r) ==
  LET n == (actor.atk * Variance(r)) \div 10000
  IN  Max(1, IF FallsShort(actor.atk, r, n) THEN n - 1 ELSE n)

performBasicAttack(b, actor, r) ==
  LET target == selectTarget(b, actor, EnemyTeam(b, actor))
  IN  IF target = NoFighter THEN b
      ELSE dealDamage(b, actor.id, target.id, basicDamage(actor, r))

\* faulty variant: the basic attack follows the cast
performAction_mut(b, actor, r) ==
  LET skillId == pickSkill(b, actor)
  IN  IF skillId # NoSkill /\ castSucceeds(b, actor, SKILL_MAP[skillId])
      THEN performBasicAttack(castSkill(b, actor, SKILL_MAP[skillId]), actor, r)
      ELSE performBasicAttack(b, actor, r)

performAction(b, actor, r) ==
  LET skillId == pickSkill(b, actor)
  IN  IF skillId # NoSkill /\ castSucceeds(b, actor, SKILL_MAP[skillId])
      THEN castSkill(b, actor, SKILL_MAP[skillId])
      ELSE performBasicAttack(b, actor, r)

\* ----------------------------------------------------------- round loop

RECURSIVE tickBuffs(_, _, _)
tickBuffs(b, f, buffs) ==
  IF buffs = <<>> THEN b
  ELSE LET buff == Head(buffs)
           sourceId == IF "sourceId" \in DOMAIN buff THEN buff.sourceId ELSE f.id
           perRound == Max(1, IF "data" \in DOMAIN buff
                                 /\ "damagePerRound" \in DOMAIN buff.data
                              THEN buff.data.damagePerRound ELSE 0)
           total == perRound * Max(1, IF buff.stacks = 0 THEN 1 ELSE buff.stacks)
           b1 == IF buff.id = "burn" /\ total > 0
                 THEN dealDamage(b, sourceId, f.id, total) ELSE b
       IN  tickBuffs(b1, f, Tail(buffs))

RECURSIVE tickFighters(_, _)
tickFighters(b, fighters) ==
  IF fighters = <<>> THEN b
  ELSE tickFighters(
         tickBuffs(b, Head(fighters), BuffSystem_getBuffs(b.buffMap, Head(fighters).id)),
         Tail(fighters))

tickDots(b) == tickFighters(b, getAllAlive(b))

\* faulty variant: the living act in roster order
actingOrder_mut(b) == [i \in DOMAIN getAllAlive(b) |-> getAllAlive(b)[i].id]

\* getAllAlive().sort((a, b) => b.spd - a.spd || a.id.localeCompare(b.id)), as ids
actingOrder(b) ==
  LET alive == getAllAlive(b)
      sorted == SortBy(alive, {p \in Pairs(alive) :
                                 LET x == alive[p[1]]
                                     y == alive[p[2]]
                                 IN  x.spd > y.spd
                                     \/ (x.spd = y.spd
                                         /\ localeCompare(x.id, y.id) < 0)})
  IN  [i \in DOMAIN sorted |-> sorted[i].id]

\* ------------------------------------------------------------------ inputs

\* values of rng(), in hundredths
RngSamples == {0, 60, 99}

Unit(hp, maxHp, atk, spd, heroClass, skills, buffs) ==
  [hp |-> hp, maxHp |-> maxHp, atk |-> atk, spd |-> spd, heroClass |-> heroClass,
   skills |-> skills, buffs |-> buffs]

\* the fighters a roster is drawn from
Templates ==
  { Unit(4, 4, 1, 1, "tank", <<"guard">>, <<>>),
    Unit(2, 2, 1, 2, "support", <<"mend">>, <<"burn">>),
    Unit(2, 2, 2, 3, "assassin", <<"execute">>, <<>>),
    Unit(3, 3, 1, 2, "warrior", <<"cleave">>, <<>>),
    Unit(2, 2, 1, 2, "mage", <<"ignite">>, <<>>),
    Unit(2, 2, 1, 1, "none", <<"aura">>, <<>>),
    Unit(2, 4, 1, 1, "none", <<"barrier">>, <<"taunt">>),
    Unit(0, 2, 1, 3, "none", <<>>, <<"taunt">>),
    Unit(2, 2, 1, 1, "none", <<"mend">>, <<>>),
    Unit(2, 2, 1, 1, "none", <<"nova">>, <<>>) }

MkTeam(side, units) ==
  LET IdsA == <<"a1", "a2", "a3", "a4", "a5">>
      IdsB == <<"b1", "b2", "b3", "b4", "b5">>
  IN
  [i \in DOMAIN units |->
     [id |-> IF side = "A" THEN IdsA[i] ELSE IdsB[i], side |-> side,
      hp |-> units[i].hp, maxHp |-> units[i].maxHp, atk |-> units[i].atk,
      spd |-> units[i].spd, heroClass |-> units[i].heroClass,
      skills |-> units[i].skills, buffs |-> units[i].buffs]]

Rosters(n) == UNION {[1..k -> Templates] : k \in 0..n}

\* BattleSetup values: two rosters of at most MaxFighters fighters together;
\* edits counts what the host has changed in the object since it built it
Setups ==
  {[teamA |-> MkTeam("A", ua), teamB |-> MkTeam("B", ub), edits |-> 0] :
     <<ua, ub>> \in {p \in Rosters(MaxFighters) \X Rosters(MaxFighters) :
                       Len(p[1]) + Len(p[2]) <= MaxFighters}}

\* the maxRounds arguments of runToEnd
RunArgs == (0..MaxRoundsArg) \cup {DefaultMaxRounds}

\* ------------------------------------------------------------ state machine

NoAction == [kind |-> "none", actorId |-> "", skillId |-> NoSkill, targets |-> <<>>]

Cur ==
  [round |-> round, over |-> over, teamA |-> teamA, teamB |-> teamB,
   shieldById |-> shieldById, skillCooldowns |-> skillCooldowns,
   statsById |-> statsById, buffMap |-> buffMap, log |-> log,
   casts |-> casts, hits |-> <<>>]

Commit(b) ==
  /\ round' = b.round
  /\ over' = b.over
  /\ teamA' = b.teamA
  /\ teamB' = b.teamB
  /\ shieldById' = b.shieldById
  /\ skillCooldowns' = b.skillCooldowns
  /\ statsById' = b.statsById
  /\ buffMap' = b.buffMap
  /\ log' = b.log
  /\ casts' = b.casts
  /\ hits' = b.hits

ZeroStats ==
  [damageDealt |-> 0, damageTaken |-> 0, healingDone |-> 0, shieldsApplied |-> 0,
   kills |-> 0, skillCasts |-> 0, skillCastsById |-> EmptyMap]

\* faulty variant: the shields of the previous battle are kept
init_mut(b, given) ==
  LET all == given.teamA \o given.teamB
  IN  [round |-> 0, over |-> FALSE, teamA |-> given.teamA, teamB |-> given.teamB,
       shieldById |-> b.shieldById, skillCooldowns |-> EmptyMap,
       statsById |-> [id \in {all[i].id : i \in DOMAIN all} |-> ZeroStats],
       buffMap |-> BuffSystem_init(all),
       log |-> Append(b.log, [type |-> "battleStart", teamA |-> given.teamA,
                              teamB |-> given.teamB]),
       casts |-> <<>>, hits |-> <<>>]

\* BattleLogic.init on the battle b: the fields are set anew and battleStart is
\* emitted onto the log as it is
init(b, given) ==
  LET all == given.teamA \o given.teamB
  IN  [round |-> 0, over |-> FALSE, teamA |-> given.teamA, teamB |-> given.teamB,
       shieldById |-> EmptyMap, skillCooldowns |-> EmptyMap,
       statsById |-> [id \in {all[i].id : i \in DOMAIN all} |-> ZeroStats],
       buffMap |-> BuffSystem_init(all),
       log |-> Append(b.log, [type |-> "battleStart", teamA |-> given.teamA,
                              teamB |-> given.teamB]),
       casts |-> <<>>, hits |-> <<>>]

\* BattleEngine.start up to the pacing: this.log.length = 0, then logic.init
start(b, given) == init([b EXCEPT !.log = <<>>], given)

\* no step() call to remember
NoEntry == [none |-> TRUE, over |-> FALSE, round |-> 0, log |-> <<>>]

NoSetup == [teamA |-> <<>>, teamB |-> <<>>, edits |-> 0, none |-> TRUE]

\* no update() call since start()
NoTicks == [total |-> 0, acc |-> 0, dt |-> 0]

\* the host has not called getEventLog() yet
NoCopy == [events |-> <<>>, shared |-> FALSE, edits |-> 0, reads |-> 0,
           logBefore |-> <<>>]

\* what a step leaves in prev: the battle it started from
Snapshot ==
  [round |-> round, teamA |-> teamA, teamB |-> teamB, shieldById |-> shieldById,
   skillCooldowns |-> skillCooldowns, buffMap |-> buffMap, logLen |-> Len(log),
   over |-> over, runI |-> runI, runMax |-> runMax, statsById |-> statsById]

\* the state after new BattleEngine(): no battle started
Init ==
  /\ round = 0
  /\ over = FALSE
  /\ teamA = <<>>
  /\ teamB = <<>>
  /\ shieldById = EmptyMap
  /\ skillCooldowns = EmptyMap
  /\ statsById = EmptyMap
  /\ buffMap = EmptyMap
  /\ log = <<>>
  /\ pc = "idle"
  /\ call = "new"
  /\ runI = 0
  /\ runMax = 0
  /\ actors = <<>>
  /\ idx = 0
  /\ setup = NoSetup
  /\ casts = <<>>
  /\ hits = <<>>
  /\ lastAction = NoAction
  /\ prev = Snapshot
  /\ entry = NoEntry
  /\ applied = <<>>
  /\ eventLogCopy = NoCopy
  /\ stepAcc = 0
  /\ ticks = NoTicks

\* BattleEngine.start(setup): the log and the pacing are reset, then BattleLogic.init.
\* The host starts a first battle with a setup of S, and later the same one again.
StartFrom(S) ==
  /\ pc = "idle"
  /\ \E s \in (IF setup = NoSetup THEN S ELSE {setup}) :
       /\ Commit(start(Cur, s))
       /\ setup' = s
  /\ call' = "start"
  /\ lastAction' = NoAction
  /\ prev' = [Snapshot EXCEPT !.logLen = 0]
  /\ entry' = NoEntry
  /\ stepAcc' = 0
  /\ ticks' = NoTicks
  /\ UNCHANGED <<applied, eventLogCopy>>
  /\ UNCHANGED <<pc, runI, runMax, actors, idx>>

\* start with any setup
Start == StartFrom(Setups)

\* BattleLogic.step() is called
Step ==
  /\ pc = "idle"
  /\ pc' = "stepRound"
  /\ call' = "step"
  /\ hits' = <<>>
  /\ lastAction' = NoAction
  /\ prev' = Snapshot
  /\ entry' = Cur
  /\ UNCHANGED <<applied, eventLogCopy, stepAcc, ticks>>
  /\ UNCHANGED <<round, over, teamA, teamB, shieldById, skillCooldowns, statsById,
                 buffMap, log, runI, runMax, actors, idx, setup, casts>>

\* BattleLogic.runToEnd(maxRounds) is called with maxRounds in args
RunToEndWith(args) ==
  /\ pc = "idle"
  /\ \E m \in args : runMax' = m
  /\ runI' = 0
  /\ pc' = "loop"
  /\ call' = "runToEnd"
  /\ hits' = <<>>
  /\ lastAction' = NoAction
  /\ prev' = Snapshot
  /\ entry' = NoEntry
  /\ UNCHANGED <<applied, eventLogCopy, stepAcc, ticks>>
  /\ UNCHANGED <<round, over, teamA, teamB, shieldById, skillCooldowns, statsById,
                 buffMap, log, actors, idx, setup, casts>>

\* faulty variant: the draw is declared over a battle already decided
forcedDraw_mut(b) ==
  emit([b EXCEPT !.over = TRUE], [type |-> "battleEnd", winner |-> "Draw"])

\* "if (!this.over) this.finish('Draw')" after the loop of runToEnd
forcedDraw(b) == IF ~b.over THEN finish(b, "Draw") ELSE b

RunToEnd == RunToEndWith(RunArgs)

\* runToEnd: the loop test, and after the loop the forced draw and the return
RunLoop ==
  /\ pc = "loop"
  /\ IF runI < runMax /\ ~over
     THEN /\ pc' = "stepRound"
          /\ UNCHANGED <<round, over, teamA, teamB, shieldById, skillCooldowns,
                         statsById, buffMap, log, casts, runI, runMax>>
          /\ hits' = <<>>
     ELSE /\ Commit(forcedDraw(Cur))
          /\ pc' = "idle"
          /\ runI' = 0
          /\ runMax' = 0
  /\ lastAction' = NoAction
  /\ prev' = Snapshot
  /\ UNCHANGED <<call, actors, idx, setup, entry, applied, eventLogCopy,
                 stepAcc, ticks>>

\* where stepRound returns to
Return ==
  IF call = "runToEnd"
  THEN pc' = "loop" /\ runI' = runI + 1 /\ UNCHANGED runMax
  ELSE pc' = "idle" /\ UNCHANGED <<runI, runMax>>

\* faulty variant: the roundStart event carries the number of the round before
roundStart_mut(b) ==
  LET b1 == emit([b EXCEPT !.round = @ + 1],
                 [type |-> "roundStart", round |-> b.round])
      b2 == [b1 EXCEPT !.buffMap = BuffSystem_onRoundStart(@, b1.round)]
  IN  reduceCooldowns(tickDots(b2))

\* faulty variant: the burns tick before the expiry pass
tickFirst_mut(b) ==
  LET b1 == emit([b EXCEPT !.round = @ + 1],
                 [type |-> "roundStart", round |-> b.round + 1])
      b2 == tickDots(b1)
  IN  reduceCooldowns([b2 EXCEPT !.buffMap = BuffSystem_onRoundStart(@, b1.round)])

\* the round-start phases of stepRound (lines 127-133)
roundStart(b) ==
  LET b1 == emit([b EXCEPT !.round = @ + 1],
                 [type |-> "roundStart", round |-> b.round + 1])
      b2 == [b1 EXCEPT !.buffMap = BuffSystem_onRoundStart(@, b1.round)]
  IN  reduceCooldowns(tickDots(b2))

\* faulty variant: a round is run on a finished battle
ReturnsAtOnce_mut(b) == FALSE

\* "if (this.over) return" at the head of stepRound
ReturnsAtOnce(b) == b.over

\* stepRound up to the actor loop; it returns at once when the battle is over
StepRoundBegin ==
  /\ pc = "stepRound"
  /\ IF ReturnsAtOnce(Cur)
     THEN /\ Return
          /\ UNCHANGED <<round, over, teamA, teamB, shieldById, skillCooldowns,
                         statsById, buffMap, log, casts, actors, idx>>
          /\ hits' = <<>>
     ELSE LET b == roundStart(Cur)
          IN  /\ Commit(b)
              /\ actors' = actingOrder(b)
              /\ idx' = 1
              /\ pc' = "actors"
              /\ UNCHANGED <<runI, runMax>>
  /\ lastAction' = NoAction
  /\ prev' = Snapshot
  /\ UNCHANGED <<call, setup, entry, applied, eventLogCopy,
                 stepAcc, ticks>>

\* what performAction resolves for the actor: the skill cast or the basic attack
actionOf(b, actor) ==
  LET skillId == pickSkill(b, actor)
      basic == selectTarget(b, actor, EnemyTeam(b, actor))
  IN  IF skillId # NoSkill /\ castSucceeds(b, actor, SKILL_MAP[skillId])
      THEN [kind |-> "skill", actorId |-> actor.id, skillId |-> skillId,
            targets |-> resolveSkillTargets(b, actor, SKILL_MAP[skillId])]
      ELSE [kind |-> "basic", actorId |-> actor.id, skillId |-> NoSkill,
            targets |-> IF basic = NoFighter THEN <<>> ELSE <<basic>>]

\* faulty variant: the dead are not passed over
SkipsTurn_mut(b, actor) == FALSE

\* the actor has died since the acting order was computed: "continue"
SkipsTurn(b, actor) == actor.hp <= 0

\* one actor's turn (lines 138-140)
actorTurn(b, actor, r) ==
  checkBattleEnd(
    performAction(
      emit(b, [type |-> "actorTurn", round |-> b.round, actorId |-> actor.id]),
      actor, r))

\* "if (this.over) break" in the actor loop
LoopBreaks(b) == b.over

\* one iteration of the actor loop of stepRound; rng() returns a value of R
ActorTurnWith(R) ==
  /\ pc = "actors"
  /\ idx <= Len(actors)
  /\ ~LoopBreaks(Cur)
  /\ LET actor == findFighter(Cur, actors[idx])
     IN  IF SkipsTurn(Cur, actor)
         THEN /\ UNCHANGED <<round, over, teamA, teamB, shieldById, skillCooldowns,
                             statsById, buffMap, log, casts>>
              /\ hits' = <<>>
              /\ lastAction' = [NoAction EXCEPT !.kind = "skip", !.actorId = actor.id]
         ELSE /\ \E r \in R : Commit(actorTurn(Cur, actor, r))
              /\ lastAction' = actionOf(Cur, actor)
  /\ idx' = idx + 1
  /\ prev' = Snapshot
  /\ UNCHANGED <<pc, call, runI, runMax, actors, setup, entry, applied, eventLogCopy,
                 stepAcc, ticks>>

ActorTurn == ActorTurnWith(RngSamples)

\* faulty variant: the valve opens one round late
roundCap_mut(b) == IF ~b.over /\ b.round > RoundCap THEN finish(b, "Draw") ELSE b

\* the safety valve of stepRound (lines 143-146)
roundCap(b) == IF ~b.over /\ b.round >= RoundCap THEN finish(b, "Draw") ELSE b

\* the end of stepRound: the loop is exhausted or was left by "break"
StepRoundEnd ==
  /\ pc = "actors"
  /\ idx > Len(actors) \/ LoopBreaks(Cur)
  /\ Commit(roundCap(Cur))
  /\ Return
  /\ actors' = <<>>
  /\ idx' = 0
  /\ lastAction' = NoAction
  /\ prev' = Snapshot
  /\ UNCHANGED <<call, setup, entry, applied, eventLogCopy,
                 stepAcc, ticks>>

Next ==
  \/ Start
  \/ Step
  \/ RunToEnd
  \/ RunLoop
  \/ StepRoundBegin
  \/ ActorTurn
  \/ StepRoundEnd

Spec == Init /\ [][Next]_vars

\* ------------------------------------ the scenario of one tank and one attacker

\* team A: hp 500, atk 20, spd 50; team B: hp 100, atk 50, spd 10; no skills
ScenarioSetup ==
  [teamA |-> MkTeam("A", <<Unit(500, 500, 20, 50, "tank", <<>>, <<>>)>>),
   teamB |-> MkTeam("B", <<Unit(100, 100, 50, 10, "attacker", <<>>, <<>>)>>),
   edits |-> 0]

ScenarioStart == StartFrom({ScenarioSetup})

\* the battle is run to its end with the default round cap
ScenarioRun == RunToEndWith({DefaultMaxRounds})

\* rng() returns 0.5: variance = 0.85 + 0.5 * (1.15 - 0.85) = 1.0
ScenarioTurn == ActorTurnWith({50})

NextScenario ==
  \/ ScenarioStart
  \/ Step
  \/ ScenarioRun
  \/ RunLoop
  \/ StepRoundBegin
  \/ ScenarioTurn
  \/ StepRoundEnd

ScenarioSpec == Init /\ [][NextScenario]_vars

\* ------------------------------------------------ a BuffSystem used directly

\* a registry with capped definitions, next to the two BattleLogic registers
LedgerRegistry ==
  [taunt |-> [durationRounds |-> 2],
   burn  |-> [durationRounds |-> 3],
   mark  |-> [maxStacks |-> 2, durationRounds |-> 1],
   seal  |-> [maxStacks |-> 3]]

\* the buff ids of the calls: the registered ones and one that is not
LedgerBuffs == DOMAIN LedgerRegistry \cup {"curse"}

LedgerTargets == {"a1", "b1"}

\* the stacks arguments of the calls
LedgerStacks == 1..3

\* the fighters of the init calls
LedgerFighters ==
  { <<[id |-> "a1", buffs |-> <<"seal">>]>>,
    <<[id |-> "a1", buffs |-> <<"mark", "seal">>], [id |-> "b1", buffs |-> <<>>]>> }

\* what a ledger call leaves alone
LedgerFrame ==
  UNCHANGED <<over, teamA, teamB, shieldById, skillCooldowns, statsById,
              log, pc, call, runI, runMax, actors, idx, setup, casts, hits,
              lastAction, prev, entry, eventLogCopy, stepAcc, ticks>>

\* one call of BuffSystem.addBuff, with the round counter as currentRound
LedgerAddBuff ==
  /\ setup = NoSetup
  /\ Len(applied) < MaxLedgerCalls
  /\ \E targetId \in LedgerTargets, buffId \in LedgerBuffs, stacks \in LedgerStacks :
       /\ buffMap' = BuffSystem_addBuffIn(LedgerRegistry, buffMap, "s1", targetId,
                                          buffId, stacks, round)
       /\ applied' = Append(applied, [op |-> "addBuff", targetId |-> targetId,
                                      buffId |-> buffId, stacks |-> stacks,
                                      round |-> round])
  /\ UNCHANGED round
  /\ LedgerFrame

\* one call of BuffSystem.removeBuff
LedgerRemoveBuff ==
  /\ setup = NoSetup
  /\ Len(applied) < MaxLedgerCalls
  /\ \E targetId \in LedgerTargets, buffId \in LedgerBuffs :
       /\ buffMap' = BuffSystem_removeBuff(buffMap, targetId, buffId)
       /\ applied' = Append(applied, [op |-> "removeBuff", targetId |-> targetId,
                                      buffId |-> buffId, stacks |-> 0,
                                      round |-> round])
  /\ UNCHANGED round
  /\ LedgerFrame

\* one call of BuffSystem.onRoundStart, with the round counter as round
LedgerOnRoundStart ==
  /\ setup = NoSetup
  /\ Len(applied) < MaxLedgerCalls
  /\ buffMap' = BuffSystem_onRoundStart(buffMap, round)
  /\ applied' = Append(applied, [op |-> "onRoundStart", targetId |-> "",
                                 buffId |-> "", stacks |-> 0, round |-> round])
  /\ UNCHANGED round
  /\ LedgerFrame

\* one call of BuffSystem.init
LedgerInit ==
  /\ setup = NoSetup
  /\ Len(applied) < MaxLedgerCalls
  /\ \E fighters \in LedgerFighters : buffMap' = BuffSystem_init(fighters)
  /\ applied' = Append(applied, [op |-> "init", targetId |-> "", buffId |-> "",
                                 stacks |-> 0, round |-> round])
  /\ UNCHANGED round
  /\ LedgerFrame

\* the caller's round counter moves on between two calls
LedgerRound ==
  /\ setup = NoSetup
  /\ round < MaxLedgerRound
  /\ round' = round + 1
  /\ UNCHANGED <<buffMap, applied>>
  /\ LedgerFrame

NextLedger ==
  \/ LedgerAddBuff
  \/ LedgerRemoveBuff
  \/ LedgerOnRoundStart
  \/ LedgerInit
  \/ LedgerRound

LedgerSpec == Init /\ [][NextLedger]_vars

\* the setups of the battles in which the host is followed
HostSetups == {s \in Setups : Len(s.teamA) + Len(s.teamB) <= HostFighters}

\* ------------------------------- the effect entry points called directly

\* one of the three entry points, called on the battle b
effectCall(b, op, sourceId, targetId, amount) ==
  CASE op = "dealDamage" -> dealDamage(b, sourceId, targetId, amount)
    [] op = "heal" -> heal(b, sourceId, targetId, amount)
    [] op = "applyShield" -> applyShield(b, sourceId, targetId, amount)

\* between two rounds an effect calls op with any source, target and amount:
\* the ids are two of the roster ids and one of no unit
CallEffect(op) ==
  /\ pc = "idle"
  /\ setup # NoSetup
  /\ Len(applied) < MaxEffectCalls
  /\ \E sourceId \in {"a1", "b1", "zz"}, targetId \in {"a1", "b1", "zz"},
        amount \in {1, 3} :
       /\ Commit(effectCall(Cur, op, sourceId, targetId, amount))
       /\ applied' = Append(applied, [op |-> op, sourceId |-> sourceId,
                                      targetId |-> targetId, amount |-> amount])
  /\ call' = "effect"
  /\ lastAction' = NoAction
  /\ prev' = Snapshot
  /\ UNCHANGED <<pc, runI, runMax, actors, idx, setup, entry, eventLogCopy,
                 stepAcc, ticks>>

CallDealDamage == CallEffect("dealDamage")

CallHeal == CallEffect("heal")

CallApplyShield == CallEffect("applyShield")

\* the battles are those of the small setups, stepped until the first direct call
EffectStart == applied = <<>> /\ StartFrom(HostSetups)

EffectStep == applied = <<>> /\ Step

NextEffect ==
  \/ EffectStart
  \/ EffectStep
  \/ StepRoundBegin
  \/ ActorTurn
  \/ StepRoundEnd
  \/ CallDealDamage
  \/ CallHeal
  \/ CallApplyShield

EffectSpec == Init /\ [][NextEffect]_vars

\* ------------------------------------------- the host keeps the setup object

\* what the host may do to the setup object it passed to init
HostEdits == {"hp", "list", "skills", "buffs"}

\* a list of ids after the host has written to it: emptied, or given an entry
editedList(l, item) == IF l = <<>> THEN <<item>> ELSE <<>>

\* the host's team list after the edit of its fighter i
hostEdit(team, i, kind) ==
  CASE kind = "hp" -> [team EXCEPT ![i].hp = 1]
    [] kind = "list" -> SubSeq(team, 1, Len(team) - 1)
    [] kind = "skills" -> [team EXCEPT ![i].skills = editedList(@, "execute")]
    [] kind = "buffs" -> [team EXCEPT ![i].buffs = editedList(@, "burn")]

\* the same edit seen through the copies init made with { ...f }: the list and
\* the fighter objects are new, the skills and buffs arrays are the host's
throughCopy(team, i, kind) ==
  CASE kind = "skills" -> [team EXCEPT ![i].skills = editedList(@, "execute")]
    [] kind = "buffs" -> [team EXCEPT ![i].buffs = editedList(@, "burn")]
    [] OTHER -> team

\* between two calls the host changes the setup object of the running battle
HostMutates ==
  /\ pc = "idle"
  /\ setup # NoSetup
  /\ setup.edits < MaxHostEdits
  /\ \E kind \in HostEdits :
       \/ \E i \in DOMAIN setup.teamA :
            /\ kind = "list" => i = Len(setup.teamA)
            /\ setup' = [setup EXCEPT !.teamA = hostEdit(@, i, kind),
                                      !.edits = @ + 1]
            /\ teamA' = throughCopy(teamA, i, kind)
            /\ log' = [log EXCEPT ![1].teamA = throughCopy(@, i, kind)]
            /\ UNCHANGED teamB
       \/ \E i \in DOMAIN setup.teamB :
            /\ kind = "list" => i = Len(setup.teamB)
            /\ setup' = [setup EXCEPT !.teamB = hostEdit(@, i, kind),
                                      !.edits = @ + 1]
            /\ teamB' = throughCopy(teamB, i, kind)
            /\ log' = [log EXCEPT ![1].teamB = throughCopy(@, i, kind)]
            /\ UNCHANGED teamA
  /\ call' = "host"
  /\ hits' = <<>>
  /\ lastAction' = NoAction
  /\ prev' = Snapshot
  /\ UNCHANGED <<round, over, shieldById, skillCooldowns, statsById, buffMap,
                 pc, runI, runMax, actors, idx, casts, entry, applied, eventLogCopy,
                 stepAcc, ticks>>

HostStart == StartFrom(HostSetups)

NextHost ==
  \/ HostStart
  \/ Step
  \/ RunToEnd
  \/ RunLoop
  \/ StepRoundBegin
  \/ ActorTurn
  \/ StepRoundEnd
  \/ HostMutates

HostSpec == Init /\ [][NextHost]_vars

\* ------------------------------------- battles long enough for a burn to expire

\* sturdy units: a mage that carries a burn from the start, a tank, a support
\* and an assassin; one of them against two of them
PhaseSetups ==
  LET PhaseTemplates ==
        { Unit(12, 12, 1, 2, "mage", <<"ignite">>, <<"burn">>),
          Unit(8, 8, 1, 1, "tank", <<"guard">>, <<>>),
          Unit(8, 8, 1, 2, "support", <<"mend">>, <<>>),
          Unit(8, 8, 1, 3, "assassin", <<"execute">>, <<>>) }
  IN
  {[teamA |-> MkTeam("A", <<ua>>), teamB |-> MkTeam("B", <<ub, uc>>), edits |-> 0] :
     <<ua, ub, uc>> \in PhaseTemplates \X PhaseTemplates \X PhaseTemplates}

PhaseStart == StartFrom(PhaseSetups)

NextPhase ==
  \/ PhaseStart
  \/ Step
  \/ StepRoundBegin
  \/ ActorTurn
  \/ StepRoundEnd

PhaseSpec == Init /\ [][NextPhase]_vars

\* ------------------------------------- one attacker against a roster of three

\* the attacker: a unit without skills, of each archetype;
\* the attacked: dead from the start, unhurt, or at half of their HP;
\* the ids of the attacked are not in the order of their slots
TargetSetups ==
  LET TargetActors ==
        {Unit(3, 3, 1, 2, c, <<>>, <<>>) :
           c \in {"tank", "support", "assassin", "warrior", "mage", "none"}}
      TargetTemplates ==
        { Unit(0, 2, 1, 1, "none", <<>>, <<>>),
          Unit(2, 2, 1, 1, "none", <<>>, <<>>),
          Unit(1, 2, 1, 1, "none", <<>>, <<>>),
          Unit(2, 4, 1, 1, "none", <<>>, <<>>) }
      TargetIds == <<"b3", "b1", "b2">>
      WithIds(team, ids) == [i \in DOMAIN team |-> [team[i] EXCEPT !.id = ids[i]]]
  IN
  {[teamA |-> MkTeam("A", <<ua>>), teamB |-> WithIds(MkTeam("B", ub), TargetIds),
    edits |-> 0] :
     <<ua, ub>> \in TargetActors \X [1..3 -> TargetTemplates]}

TargetStart == StartFrom(TargetSetups)

NextTarget ==
  \/ TargetStart
  \/ Step
  \/ StepRoundBegin
  \/ ActorTurn
  \/ StepRoundEnd

TargetSpec == Init /\ [][NextTarget]_vars

\* ------------------------------- one caster of an area skill against three

\* the caster: a unit of each archetype with an enemy_aoe skill, capped or not;
\* the attacked: dead from the start, unhurt, at half of their HP, or taunting;
\* the ids of the attacked are not in the order of their slots
AoeSetups ==
  LET AoeActors ==
        {Unit(3, 3, 1, 2, c, <<sk>>, <<>>) :
           c \in {"tank", "support", "assassin", "warrior", "mage", "none"},
           sk \in {"cleave", "ignite"}}
      AoeTemplates ==
        { Unit(0, 2, 1, 1, "none", <<>>, <<>>),
          Unit(2, 2, 1, 1, "none", <<>>, <<>>),
          Unit(1, 2, 1, 1, "none", <<>>, <<>>),
          Unit(2, 4, 1, 1, "none", <<>>, <<"taunt">>) }
      AoeIds == <<"b3", "b1", "b2">>
      WithIds(team, ids) == [i \in DOMAIN team |-> [team[i] EXCEPT !.id = ids[i]]]
  IN
  {[teamA |-> MkTeam("A", <<ua>>), teamB |-> WithIds(MkTeam("B", ub), AoeIds),
    edits |-> 0] :
     <<ua, ub>> \in AoeActors \X [1..3 -> AoeTemplates]}

AoeStart == StartFrom(AoeSetups)

NextAoe ==
  \/ AoeStart
  \/ Step
  \/ StepRoundBegin
  \/ ActorTurn
  \/ StepRoundEnd

AoeSpec == Init /\ [][NextAoe]_vars

\* ------------------------------------------- the engine paced by update(dt)

\* faulty variant: every update steps
StepDue_mut(acc) == TRUE

\* "if (this.stepAcc >= this.stepIntervalTicks)"
StepDue(acc) == acc >= StepIntervalTicks

\* BattleEngine.update(dt): nothing once the battle is over; else dt is added to
\* stepAcc and, the interval reached, stepAcc is reset and logic.step() called;
\* the dt of the calls are below and above the interval
Update ==
  /\ pc = "idle"
  /\ \E dt \in {1, 2, 4} :
       /\ ticks.total + dt <= MaxTicks
       /\ ticks' = [total |-> ticks.total + dt, acc |-> stepAcc, dt |-> dt]
       /\ IF over
          THEN UNCHANGED <<stepAcc, pc>>
          ELSE IF StepDue(stepAcc + dt)
               THEN stepAcc' = 0 /\ pc' = "stepRound"
               ELSE stepAcc' = stepAcc + dt /\ UNCHANGED pc
  /\ call' = "update"
  /\ hits' = <<>>
  /\ lastAction' = NoAction
  /\ prev' = Snapshot
  /\ entry' = Cur
  /\ UNCHANGED <<round, over, teamA, teamB, shieldById, skillCooldowns, statsById,
                 buffMap, log, runI, runMax, actors, idx, setup, casts, applied,
                 eventLogCopy>>

UpdateStart == StartFrom(HostSetups)

NextUpdate ==
  \/ UpdateStart
  \/ Update
  \/ StepRoundBegin
  \/ ActorTurn
  \/ StepRoundEnd

UpdateSpec == Init /\ [][NextUpdate]_vars

\* ------------------------------------------ rosters that burn from the start

\* units without skills, two of them carrying a burn from the start;
\* one or two living units on each side
WipeSetups ==
  LET WipeTemplates ==
        { Unit(1, 1, 1, 1, "none", <<>>, <<"burn">>),
          Unit(2, 2, 1, 2, "none", <<>>, <<"burn">>),
          Unit(2, 2, 1, 1, "none", <<>>, <<>>) }
  IN
  {[teamA |-> MkTeam("A", ua), teamB |-> MkTeam("B", ub), edits |-> 0] :
     <<ua, ub>> \in ([1..1 -> WipeTemplates] \cup [1..2 -> WipeTemplates])
                      \X ([1..1 -> WipeTemplates] \cup [1..2 -> WipeTemplates])}

WipeStart == StartFrom(WipeSetups)

NextWipe ==
  \/ WipeStart
  \/ Step
  \/ StepRoundBegin
  \/ ActorTurn
  \/ StepRoundEnd

WipeSpec == Init /\ [][NextWipe]_vars

\* ------------------------------------------ battles that last to the round cap

\* two units without skills that take 1 HP from each other in every round: the
\* faster one fells the other in round 29, in round 30, or not before the cap
CapSetups ==
  {[teamA |-> MkTeam("A", <<Unit(31, 31, 1, 2, "none", <<>>, <<>>)>>),
    teamB |-> MkTeam("B", <<Unit(h, h, 1, 1, "none", <<>>, <<>>)>>),
    edits |-> 0] : h \in {29, 30, 31}}

CapStart == StartFrom(CapSetups)

NextCap ==
  \/ CapStart
  \/ Step
  \/ RunToEnd
  \/ RunLoop
  \/ StepRoundBegin
  \/ ActorTurn
  \/ StepRoundEnd

CapSpec == Init /\ [][NextCap]_vars

\* ------------------------------------------ the host reads the event log

\* faulty variant: the engine hands out its own array
getEventLog_mut(l) ==
  [events |-> l, shared |-> TRUE, edits |-> 0, reads |-> eventLogCopy.reads + 1,
   logBefore |-> l]

\* BattleEngine.getEventLog(): [...this.log], a new array of the same events
getEventLog(l) ==
  [events |-> l, shared |-> FALSE, edits |-> 0, reads |-> eventLogCopy.reads + 1,
   logBefore |-> l]

\* between two calls of the engine the host asks for the event log: a first time,
\* and again once it has edited the array it had
GetEventLog ==
  /\ pc = "idle"
  /\ eventLogCopy.reads < MaxLogReads
  /\ eventLogCopy = NoCopy \/ eventLogCopy.edits > 0
  /\ eventLogCopy' = getEventLog(log)
  /\ call' = "getEventLog"
  /\ hits' = <<>>
  /\ lastAction' = NoAction
  /\ prev' = Snapshot
  /\ UNCHANGED <<round, over, teamA, teamB, shieldById, skillCooldowns, statsById,
                 buffMap, log, pc, runI, runMax, actors, idx, setup, casts,
                 entry, applied, stepAcc, ticks>>

\* an event the engine never emits, pushed by the host
ForgedEvent == [type |-> "forged"]

\* the array after the host pushed an event onto it or removed its last one
editedCopy(l, kind) ==
  IF kind = "push" THEN Append(l, ForgedEvent) ELSE SubSeq(l, 1, Len(l) - 1)

\* the host adds to or removes from the array it was given; the engine's log
\* follows only if the array is the engine's own
HostEditsCopy ==
  /\ pc = "idle"
  /\ eventLogCopy # NoCopy
  /\ eventLogCopy.edits < MaxCopyEdits
  /\ \E kind \in {"push", "pop"} :
       /\ kind = "pop" => eventLogCopy.events # <<>>
       /\ eventLogCopy' = [eventLogCopy EXCEPT
                             !.events = editedCopy(@, kind),
                             !.edits = @ + 1,
                             !.logBefore = log]
       /\ log' = IF eventLogCopy.shared
                 THEN editedCopy(eventLogCopy.events, kind)
                 ELSE log
  /\ call' = "hostEdit"
  /\ hits' = <<>>
  /\ lastAction' = NoAction
  /\ prev' = Snapshot
  /\ UNCHANGED <<round, over, teamA, teamB, shieldById, skillCooldowns, statsById,
                 buffMap, pc, runI, runMax, actors, idx, setup, casts,
                 entry, applied, stepAcc, ticks>>

\* BattleEngine.emit(e) is called by the host between two calls of the engine;
\* the log holds at most MaxHostEmits events that the host emitted
HostEmits ==
  /\ pc = "idle"
  /\ Cardinality({k \in DOMAIN log : log[k] = ForgedEvent}) < MaxHostEmits
  /\ Commit(emit(Cur, ForgedEvent))
  /\ call' = "emit"
  /\ lastAction' = NoAction
  /\ prev' = Snapshot
  /\ UNCHANGED <<pc, runI, runMax, actors, idx, setup, entry, applied, eventLogCopy,
                 stepAcc, ticks>>

\* BattleLogic.init(setup) is called on the logic, not through start(): the log
\* and the pacing of the engine are left as they are.
\* The host passes a setup of S, or the one it has started a battle with.
InitFrom(S) ==
  /\ pc = "idle"
  /\ Cardinality({k \in DOMAIN log : log[k].type = "battleStart"}) <= MaxDirectInits
  /\ \E s \in (IF setup = NoSetup THEN S ELSE {setup}) :
       /\ Commit(init(Cur, s))
       /\ setup' = s
  /\ call' = "init"
  /\ lastAction' = NoAction
  /\ prev' = Snapshot
  /\ entry' = NoEntry
  /\ UNCHANGED <<pc, runI, runMax, actors, idx, applied, eventLogCopy,
                 stepAcc, ticks>>

\* the battles whose log the host reads: a mage against at most one unit
EventLogSetups ==
  {s \in HostSetups : Len(s.teamA) = 1 /\ s.teamA[1].heroClass = "mage"}

EventLogStart == StartFrom(EventLogSetups)

NextEventLog ==
  \/ EventLogStart
  \/ Step
  \/ StepRoundBegin
  \/ ActorTurn
  \/ StepRoundEnd
  \/ GetEventLog
  \/ HostEditsCopy

EventLogSpec == Init /\ [][NextEventLog]_vars

\* ------------------------------- the host calls init and emit on its own

\* the battles of a shielded unit against one other unit
DirectSetups ==
  {s \in HostSetups : /\ Len(s.teamA) = 1 /\ Len(s.teamB) = 1
                      /\ s.teamA[1].skills = <<"barrier">>}

DirectStart == StartFrom(DirectSetups)

DirectInit == InitFrom(DirectSetups)

\* step() is called at any time, before a battle is set up as well; the log it
\* appends to is kept finite
DirectStep == Len(log) < MaxDirectLog /\ Step

NextDirect ==
  \/ DirectStart
  \/ DirectInit
  \/ HostEmits
  \/ DirectStep
  \/ StepRoundBegin
  \/ ActorTurn
  \/ StepRoundEnd

DirectSpec == Init /\ [][NextDirect]_vars


\* ------------------------------------------------------------ properties

LogIndex(type) == {k \in DOMAIN log : log[k].type = type}
LastEvent == log[Len(log)]
AllNow == teamA \o teamB
SideAlive(team) == \E i \in DOMAIN team : team[i].hp > 0
ActedNow == lastAction.kind \in {"basic", "skill"}
MaxOf(S) == CHOOSE x \in S : \A y \in S : y <= x

\* HP of a fighter in the battleStart event of the current battle
InitialHp(id) ==
  LET all == log[1].teamA \o log[1].teamB
  IN  all[CHOOSE i \in DOMAIN all : all[i].id = id].hp

\* C1: runToEnd(maxRounds) returns with the battle over, for every setup (empty
\* rosters and fighters starting at 0 HP included) and every maxRounds >= 0, and
\* the round counter never exceeds 30, under runToEnd as under repeated step().
\* The call returns because its loops are counted: i runs up to maxRounds and the
\* actor loop up to the length of the acting order.
C1_RunToEndEndsBattle ==
  /\ round <= RoundCap
  /\ (pc = "idle" /\ call = "runToEnd") => over
  /\ (pc # "idle" /\ call = "runToEnd") => runI <= runMax
  /\ pc = "actors" => idx <= Len(actors) + 1

\* a fought battle (both sides still standing) that runToEnd left at round 30
C1_Witness ==
  /\ pc = "idle" /\ call = "runToEnd" /\ over
  /\ round = RoundCap
  /\ SideAlive(teamA) /\ SideAlive(teamB)

\* C2: every combatant keeps 0 <= hp <= maxHp in every reachable state.
C2_HpBounds ==
  \A i \in DOMAIN AllNow : 0 <= AllNow[i].hp /\ AllNow[i].hp <= AllNow[i].maxHp

\* a heal that was cut at maxHp, and then a hit larger than the HP left
C2_Witness ==
  /\ \E k \in LogIndex("heal") :
       log[k].amount >= log[k].targetMaxHp /\ log[k].targetHp = log[k].targetMaxHp
  /\ \E i \in DOMAIN hits :
       hits[i].raw - hits[i].shieldBefore > hits[i].hpBefore

\* C3: once the battle is over exactly one battleEnd event has been emitted, it
\* carries a winner in {A, B, Draw} and it is the last event of the log, whatever
\* step() and runToEnd() calls follow; before that there is none.
C3_SingleBattleEnd ==
  LET ends == LogIndex("battleEnd")
  IN  /\ over <=> ends # {}
      /\ Cardinality(ends) <= 1
      /\ \A k \in ends : k = Len(log) /\ log[k].winner \in {"A", "B", "Draw"}

\* step() was called on a battle that is over
C3_Witness ==
  /\ over /\ pc = "stepRound" /\ call = "step"
  /\ LastEvent.type = "battleEnd"

\* C4: right after an actor's action, a side without living members means the
\* battle is over and battleEnd (A: only team A stands, B: only team B, Draw:
\* nobody) is the last event, so no actorTurn follows; and battleEnd(A) is in the
\* log only when all of team B is dead and team A has a living member (B mirrored).
C4_EndCheckedAfterEveryAction ==
  LET a == SideAlive(teamA)
      b == SideAlive(teamB)
      won(w) == over /\ LastEvent.type = "battleEnd" /\ LastEvent.winner = w
  IN  /\ ActedNow =>
           /\ (a /\ ~b) => won("A")
           /\ (~a /\ b) => won("B")
           /\ (~a /\ ~b) => won("Draw")
      /\ \A k \in LogIndex("battleEnd") :
           /\ log[k].winner = "A" => (a /\ ~b)
           /\ log[k].winner = "B" => (~a /\ b)
           /\ \A j \in LogIndex("actorTurn") : j < k

\* the first action of a round ended the battle while other actors were waiting
C4_Witness ==
  /\ ActedNow /\ over
  /\ pc = "actors" /\ idx = 2 /\ Len(actors) >= 2
  /\ LastEvent.type = "battleEnd" /\ LastEvent.winner \in {"A", "B"}

\* C5: a combatant has one dead event if its HP reached 0 during the battle and
\* none otherwise; the dead event directly follows the damage event that took the
\* HP to 0, and each such hit adds one kill to the source of that damage.
C5_DeadExactlyOnce ==
  /\ \A i \in DOMAIN AllNow :
       LET id == AllNow[i].id
           deads == {k \in LogIndex("dead") : log[k].targetId = id}
       IN  /\ Cardinality(deads)
                = (IF AllNow[i].hp = 0 /\ InitialHp(id) > 0 THEN 1 ELSE 0)
           /\ \A k \in deads :
                /\ k > 1
                /\ log[k - 1].type = "damage"
                /\ log[k - 1].targetId = id
                /\ log[k - 1].targetHp = 0
  /\ \A id \in DOMAIN statsById :
       statsById[id].kills
         = Cardinality({k \in LogIndex("dead") : log[k - 1].sourceId = id})

\* two units have died, one of them under a burn tick at round start
C5_Witness ==
  /\ Cardinality(LogIndex("dead")) >= 2
  /\ \E k \in LogIndex("dead") : k > 2 /\ log[k - 2].type = "roundStart"

\* the events appended to the log by the last step
NewEvents == (prev.logLen + 1)..Len(log)

\* C6: no actorTurn event names a unit whose HP is 0 when the event is emitted
\* (an actor's turn is one step, and the event is the first thing it emits).
C6_DeadNeverActs ==
  \A k \in NewEvents :
     log[k].type = "actorTurn" => findFighter(prev, log[k].actorId).hp > 0

\* a unit that was in the acting order was killed before its turn and is passed over
C6_Witness ==
  /\ lastAction.kind = "skip"
  /\ findFighter(Cur, lastAction.actorId).hp = 0

\* the archetypes selectTarget and pickSkill tell apart, and any other
HeroClasses == {"tank", "support", "assassin", "warrior", "mage", "none"}

AsClass(f, c) == [f EXCEPT !.heroClass = c]

\* HP of the target of the new event k just before that event
HpBeforeEvent(k) ==
  LET id == log[k].targetId
      earlier == {j \in NewEvents : /\ j < k
                                    /\ log[j].type \in {"damage", "heal"}
                                    /\ log[j].targetId = id}
  IN  IF earlier = {} THEN findFighter(prev, id).hp
      ELSE log[MaxOf(earlier)].targetHp

AllLiving(list) == SelectSeq(list, LAMBDA t : t.hp <= 0) = <<>>

\* whatever living unit acts, every selector returns living units only
SelectorsPickLiving ==
  \A i \in DOMAIN AllNow :
     AllNow[i].hp > 0 =>
       LET actor == AllNow[i]
           enemy == EnemyTeam(Cur, actor)
           ally == AllyTeam(Cur, actor)
       IN  /\ \A c \in HeroClasses :
                LET single == selectTarget(Cur, AsClass(actor, c), enemy)
                IN  single = NoFighter \/ single.hp > 0
           /\ \A team \in {ally, enemy, Alive(ally)} :
                LET healed == selectHealTarget(actor, team)
                IN  healed = NoFighter \/ healed.hp > 0
           /\ \A m \in 0..MaxFighters :
                AllLiving(selectAoeTargets(Cur, actor, enemy, m))
           /\ \A s \in DOMAIN SKILL_MAP :
                AllLiving(resolveSkillTargets(Cur, actor, SKILL_MAP[s]))

\* C7: every unit returned by selectTarget, selectHealTarget, selectAoeTargets and
\* resolveSkillTargets is alive when it is selected, and no damage or heal event
\* names a target whose HP was 0 just before the event.
C7_DeadNeverTargeted ==
  /\ SelectorsPickLiving
  /\ AllLiving(lastAction.targets)
  /\ \A k \in NewEvents :
       log[k].type \in {"damage", "heal"} => HpBeforeEvent(k) > 0

\* an attack went to the second enemy in line because the first one is dead
C7_Witness ==
  /\ ActedNow
  /\ Len(hits) = 1
  /\ \E team \in {teamA, teamB} :
       /\ Len(team) >= 2
       /\ team[1].hp = 0
       /\ team[2].id = hits[1].targetId
       /\ lastAction.targets[1].id = team[2].id

\* the shield pool of a unit after the step
ShieldNow(id) == MapGet(shieldById, id, 0)

\* the effect of each dealDamage call of the step on its target; floored tells
\* whether the HP left by damage beyond the shield is to be cut at 0
HitsResolve(floored) ==
  \A i \in DOMAIN hits :
     LET h == hits[i]
         D == h.raw
         S == h.shieldBefore
         t == findFighter(Cur, h.targetId)
         left == h.hpBefore - (D - S)
     IN  /\ D >= 1 /\ h.hpBefore > 0
         /\ D <= S => /\ t.hp = h.hpBefore
                      /\ ShieldNow(t.id) = S - D
                      /\ (t.id \in DOMAIN shieldById) <=> (S - D > 0)
         /\ D > S => /\ t.id \notin DOMAIN shieldById
                     /\ t.hp = (IF floored THEN Max(0, left) ELSE left)

\* C8 (as amended): a living target with shield S takes raw damage D >= 1: if D <= S
\* its HP is unchanged and its shield becomes S - D (the entry is removed at 0); if
\* D > S the entry is removed and its HP becomes max(0, HP - (D - S)).
C8_ShieldAbsorbsFirst == HitsResolve(TRUE)

\* C8 (as stated): ... if D > S the HP decreases by exactly D - S.
C8_Original == HitsResolve(FALSE)

\* a hit that broke a shield and went through to the HP of a unit that survived
C8_Witness ==
  \E i \in DOMAIN hits :
     /\ hits[i].shieldBefore > 0
     /\ hits[i].raw > hits[i].shieldBefore
     /\ findFighter(Cur, hits[i].targetId).hp > 0
     /\ findFighter(Cur, hits[i].targetId).hp < hits[i].hpBefore

\* the living members of team that hold a taunt in the ledger of battle b
LivingTaunters(b, team) ==
  {team[i].id : i \in {j \in DOMAIN team :
                         /\ team[j].hp > 0
                         /\ \E k \in DOMAIN BuffSystem_getBuffs(b.buffMap, team[j].id) :
                              BuffSystem_getBuffs(b.buffMap, team[j].id)[k].id = "taunt"}}

SingleTargetSkills == {s \in DOMAIN SKILL_MAP : SKILL_MAP[s].target = "enemy_single"}

\* the last step was a basic attack or the cast of an enemy_single skill
SingleTargetAction ==
  \/ lastAction.kind = "basic"
  \/ lastAction.kind = "skill" /\ lastAction.skillId \in SingleTargetSkills

\* C9: if a living enemy of the actor holds a taunt, the target of the actor's basic
\* attack, and of an enemy_single skill, is a living taunting enemy, whatever the
\* archetype of the actor.
C9_TauntForcesTarget ==
  /\ \A i \in DOMAIN AllNow : \A c \in HeroClasses :
       AllNow[i].hp > 0 =>
         LET actor == AsClass(AllNow[i], c)
             taunters == LivingTaunters(Cur, EnemyTeam(Cur, actor))
         IN  taunters # {} =>
               /\ selectTarget(Cur, actor, EnemyTeam(Cur, actor)).id \in taunters
               /\ \A s \in SingleTargetSkills :
                    LET ts == resolveSkillTargets(Cur, actor, SKILL_MAP[s])
                    IN  Len(ts) = 1 /\ ts[1].id \in taunters
  /\ SingleTargetAction =>
       LET actor == findFighter(prev, lastAction.actorId)
           taunters == LivingTaunters(prev, EnemyTeam(prev, actor))
       IN  taunters # {} =>
             /\ Len(lastAction.targets) = 1
             /\ lastAction.targets[1].id \in taunters
             /\ Len(hits) = 1
             /\ hits[1].targetId = lastAction.targets[1].id

\* an assassin's attack went to a taunting enemy although another living enemy,
\* holding no taunt, stood at a lower share of its HP
C9_Witness ==
  /\ SingleTargetAction
  /\ Len(hits) = 1
  /\ LET actor == findFighter(prev, lastAction.actorId)
         enemy == EnemyTeam(prev, actor)
         taunters == LivingTaunters(prev, enemy)
     IN  /\ actor.heroClass = "assassin"
         /\ hits[1].targetId \in taunters
         /\ \E i \in DOMAIN enemy :
              /\ enemy[i].hp > 0
              /\ enemy[i].id \notin taunters
              /\ FracLess(enemy[i], findFighter(prev, hits[1].targetId))

\* the casts of a skill by an actor, as positions in casts
CastsOf(a, s) == {k \in DOMAIN casts : casts[k].actorId = a /\ casts[k].skillId = s}

FighterIds == {AllNow[i].id : i \in DOMAIN AllNow}

\* C10: after an actor casts a skill of cooldown C >= 1 in round r it does not cast
\* that skill in the rounds r+1 .. r+C-1 and the cooldown is 0 from round r+C on (up
\* to the next cast); every round start takes exactly 1 off every cooldown, down
\* to 0 and no further.
C10_CooldownGatesRecast ==
  \A a \in FighterIds : \A s \in DOMAIN SKILL_MAP :
     LET C == SKILL_MAP[s].cooldown
         ks == CastsOf(a, s)
         cd == getCooldown(Cur, a, s)
     IN  /\ cd >= 0
         /\ C >= 1 =>
              /\ \A k1, k2 \in ks : k1 < k2 => casts[k2].round >= casts[k1].round + C
              /\ ks # {} => cd = Max(0, C - (round - casts[MaxOf(ks)].round))
              /\ ks = {} => cd = 0
         /\ round = prev.round + 1 => cd = Max(0, getCooldown(prev, a, s) - 1)

\* a skill was cast again exactly C rounds after its last cast
C10_Witness ==
  \E a \in FighterIds : \E s \in DOMAIN SKILL_MAP :
     \E k1, k2 \in CastsOf(a, s) :
        /\ k1 < k2
        /\ SKILL_MAP[s].cooldown >= 2
        /\ casts[k2].round = casts[k1].round + SKILL_MAP[s].cooldown

\* the unit x is to act before the unit y: higher speed, or equal speed and the
\* smaller id
ActsBefore(x, y) ==
  LET fx == findFighter(Cur, x)
      fy == findFighter(Cur, y)
  IN  fx.spd > fy.spd \/ (fx.spd = fy.spd /\ localeCompare(x, y) < 0)

\* C11: the acting order of a round is computed once, at round start, over the units
\* alive at that moment, by descending speed and then ascending id; the actorTurn
\* events of the round follow it: of two of them the earlier names the faster unit,
\* or at equal speed the one with the smaller id.
C11_ActingOrder ==
  /\ pc = "actors" =>
       /\ \A i, j \in DOMAIN actors : i < j => ActsBefore(actors[i], actors[j])
       /\ idx = 1 =>
            {actors[i] : i \in DOMAIN actors}
              = {AllNow[i].id : i \in {j \in DOMAIN AllNow : AllNow[j].hp > 0}}
  /\ \A k \in NewEvents :
       log[k].type = "actorTurn" =>
         /\ pc = "actors"
         /\ log[k].round = round
         /\ log[k].actorId = actors[idx - 1]
         /\ \A j \in LogIndex("actorTurn") :
              (j < k /\ log[j].round = log[k].round) =>
                ActsBefore(log[j].actorId, log[k].actorId)

\* the third turn of a round: the fastest unit, of team B, went first, and the two
\* others, of equal speed, act in the order of their ids
C11_Witness ==
  /\ pc = "actors" /\ idx = 4
  /\ LastEvent.type = "actorTurn"
  /\ findFighter(Cur, actors[1]).side = "B"
  /\ findFighter(Cur, actors[2]).spd = findFighter(Cur, actors[3]).spd
  /\ \E k \in NewEvents : log[k].type = "actorTurn" /\ log[k].actorId = actors[3]

\* the winner named by the battleEnd event, "none" while the battle runs
Winner == IF LastEvent.type = "battleEnd" THEN LastEvent.winner ELSE "none"

\* C12: a battle with both sides standing when round 30 completes, or when runToEnd
\* returns, has ended in battleEnd(Draw); an action that leaves one side standing
\* ends the battle with that side as winner, in round 30 and in the last round
\* runToEnd permits as in any other, and no Draw is put over it afterwards.
C12_DrawOnCap ==
  /\ (/\ pc = "idle"
      /\ call \in {"step", "runToEnd"}
      /\ round = RoundCap \/ call = "runToEnd"
      /\ SideAlive(teamA) /\ SideAlive(teamB))
       => over /\ Winner = "Draw"
  /\ (over /\ SideAlive(teamA) /\ SideAlive(teamB)) => Winner = "Draw"
  /\ (ActedNow /\ over /\ ~prev.over) =>
       /\ SideAlive(teamA) # SideAlive(teamB)
       /\ Winner = (IF SideAlive(teamA) THEN "A" ELSE "B")
  /\ (over /\ LogIndex("actorTurn") # {} /\ SideAlive(teamA) # SideAlive(teamB)) =>
       Winner = (IF SideAlive(teamA) THEN "A" ELSE "B")

\* runToEnd has returned from a battle that an action decided in round 30, the
\* last round the call permitted
C12_Witness ==
  /\ pc = "idle" /\ call = "runToEnd"
  /\ round = RoundCap
  /\ prev.runI = prev.runMax /\ prev.runMax >= 1
  /\ prev.over /\ prev.logLen = Len(log)
  /\ Winner \in {"A", "B"}
  /\ log[Len(log) - 1].type \in {"damage", "dead"}

\* C14: nothing the host does to the setup object after init changes the state of
\* the simulation: the teams the engine fights with are as they were before the
\* host's edit.
C14_SetupNotShared ==
  call = "host" => teamA = prev.teamA /\ teamB = prev.teamB

\* C15: init(setup) after any previous battle, finished or not, leaves round = 0,
\* over = false, no shield and no cooldown entry, every counter of every unit at 0,
\* a buff ledger holding exactly the initial buffs of the new roster, and adds
\* battleStart to the log (its only event when init is called by start()): every
\* field the simulation reads is what the setup alone determines, as on a newly
\* constructed engine.
C15_InitResets ==
  call \in {"start", "init"} =>
    /\ round = 0 /\ ~over
    /\ teamA = setup.teamA /\ teamB = setup.teamB
    /\ DOMAIN shieldById = {}
    /\ DOMAIN skillCooldowns = {}
    /\ DOMAIN statsById = {AllNow[i].id : i \in DOMAIN AllNow}
    /\ \A id \in DOMAIN statsById :
         /\ statsById[id].damageDealt = 0 /\ statsById[id].damageTaken = 0
         /\ statsById[id].healingDone = 0 /\ statsById[id].shieldsApplied = 0
         /\ statsById[id].kills = 0 /\ statsById[id].skillCasts = 0
         /\ DOMAIN statsById[id].skillCastsById = {}
    /\ DOMAIN buffMap = {AllNow[i].id : i \in DOMAIN AllNow}
    /\ \A i \in DOMAIN AllNow :
         LET held == buffMap[AllNow[i].id]
         IN  /\ Len(held) = Len(AllNow[i].buffs)
             /\ \A j \in DOMAIN held :
                  held[j] = [id |-> AllNow[i].buffs[j], stacks |-> 1]
    /\ LastEvent.type = "battleStart"
    /\ LastEvent.teamA = setup.teamA /\ LastEvent.teamB = setup.teamB
    /\ call = "start" => Len(log) = 1 /\ stepAcc = 0
    /\ call = "init" => Len(log) = prev.logLen + 1
    /\ pc = "idle" /\ actors = <<>> /\ casts = <<>>

\* a battle is started over an unfinished one that had reached a later round with
\* shields up, skills on cooldown and a buff ledger unlike the initial one
C15_Witness ==
  /\ call = "init"
  /\ prev.round > 0 /\ ~prev.over
  /\ DOMAIN prev.shieldById # {}
  /\ DOMAIN prev.skillCooldowns # {}
  /\ prev.buffMap # buffMap
  /\ prev.teamA # teamA

\* C16: when step() returns from a battle that was not over, the round counter is
\* one more than at the call and exactly one roundStart event was emitted since,
\* carrying the new round number; when step() returns from a battle that was over,
\* no field of the battle has changed and no event was emitted.
C16_StepAdvancesOneRound ==
  (pc = "idle" /\ call = "step") =>
    IF entry.over
    THEN Cur = entry
    ELSE /\ round = entry.round + 1
         /\ \E k \in LogIndex("roundStart") :
              /\ k > Len(entry.log)
              /\ log[k].round = round
              /\ \A j \in LogIndex("roundStart") : j > Len(entry.log) => j = k
         /\ SubSeq(log, 1, Len(entry.log)) = entry.log

\* step() has returned from a round in which units acted, and then once more from
\* the battle that round had ended
C16_Witness ==
  /\ pc = "idle" /\ call = "step"
  /\ entry.over
  /\ round >= 2
  /\ LogIndex("actorTurn") # {}

\* C17: in the scenario, once started (A: hp 500, atk 20, spd 50; B: hp 100, atk 50, spd 10; no
\* skills; variance 1.0) the first actorTurn of every round is that of A's unit,
\* every turn of B's unit is followed by a damage event of exactly 50 on A's unit,
\* and the battle ends with battleEnd(winner = A) by round 5: no round 6 starts, a
\* completed round 5 and a returned runToEnd leave the battle won by A.
C17_Scenario ==
  setup # NoSetup =>
  /\ \A k \in LogIndex("actorTurn") :
       /\ log[k - 1].type = "roundStart" => log[k].actorId = "a1"
       /\ log[k - 1].type # "roundStart" => log[k].actorId = "b1"
       /\ log[k].actorId = "b1" =>
            /\ k < Len(log)
            /\ log[k + 1].type = "damage"
            /\ log[k + 1].sourceId = "b1" /\ log[k + 1].targetId = "a1"
            /\ log[k + 1].amount = 50
  /\ \A k \in LogIndex("roundStart") :
       k < Len(log) => log[k + 1].type = "actorTurn"
  /\ round <= 5
  /\ over => Winner = "A"
  /\ (pc = "idle" /\ (round = 5 \/ call = "runToEnd")) => over

\* round 5 of the scenario: B's unit has hit four times and A's unit lands the
\* fifth blow
C17_Witness ==
  /\ round = 5 /\ over /\ Winner = "A"
  /\ teamA[1].hp = 300 /\ teamB[1].hp = 0
  /\ Cardinality({k \in LogIndex("damage") : log[k].sourceId = "b1"}) = 4

\* the buffAdd events that put a burn on the unit id
BurnAdds(id) ==
  {k \in LogIndex("buffAdd") : log[k].targetId = id /\ log[k].buffId = "burn"}

\* the burn instances the unit id carries
BurnsOf(id) ==
  {j \in DOMAIN BuffSystem_getBuffs(buffMap, id) :
     BuffSystem_getBuffs(buffMap, id)[j].id = "burn"}

\* damagePerRound as castSkill computes it for the caster of an apply_dot skill
DamagePerRound(casterId, skillId) ==
  Max(1, Pct(findFighter(Cur, casterId).atk, Param(SKILL_MAP[skillId], "ratio", 40)))

\* C18: at each round start every living unit that carries a burn applied by a
\* skill receives one dealDamage of damagePerRound x stacks, damagePerRound being
\* the value computed when the burn was applied, and the call names the unit that
\* applied the burn as its source.
C18_BurnTick ==
  (pc = "actors" /\ idx = 1) =>
    \A i \in DOMAIN AllNow :
      LET id == AllNow[i].id
          list == BuffSystem_getBuffs(buffMap, id)
      IN  (findFighter(prev, id).hp > 0 /\ BurnsOf(id) # {} /\ BurnAdds(id) # {}) =>
            LET k == MaxOf(BurnAdds(id))
                j == CHOOSE x \in BurnsOf(id) : TRUE
                amount == DamagePerRound(log[k].sourceId, "ignite") * list[j].stacks
            IN  /\ \E h \in DOMAIN hits :
                     /\ hits[h].targetId = id
                     /\ hits[h].sourceId = log[k].sourceId
                     /\ hits[h].raw = amount
                /\ Cardinality({h \in DOMAIN hits : hits[h].targetId = id}) = 1

\* C19: a burn applied by an apply_dot skill of duration d in round r expires at
\* round r + d + 1.
C19_DotDuration ==
  (lastAction.kind = "skill" /\ SKILL_MAP[lastAction.skillId].effect = "apply_dot") =>
    \A i \in DOMAIN lastAction.targets :
      LET list == BuffSystem_getBuffs(buffMap, lastAction.targets[i].id)
      IN  \E j \in DOMAIN list :
            /\ list[j].id = Param(SKILL_MAP[lastAction.skillId], "buffId", "burn")
            /\ "expiresRound" \in DOMAIN list[j]
            /\ list[j].expiresRound
                 = round + Param(SKILL_MAP[lastAction.skillId], "duration", 2) + 1

\* the instance has no expiresRound
Permanent(inst) == "expiresRound" \notin DOMAIN inst

\* C20: in every state of round n every buff instance has no expiresRound or an
\* expiresRound above n; the expiry pass at the start of a round removes from each
\* ledger exactly the instances with expiresRound <= the new round, so that an
\* instance without expiresRound stays, and the others keep their order.
C20_ExpiryPass ==
  /\ \A id \in DOMAIN buffMap :
       \A j \in DOMAIN buffMap[id] :
         Permanent(buffMap[id][j]) \/ buffMap[id][j].expiresRound > round
  /\ (pc = "actors" /\ idx = 1) =>
       /\ round = prev.round + 1
       /\ DOMAIN buffMap = DOMAIN prev.buffMap
       /\ \A id \in DOMAIN buffMap :
            LET old == prev.buffMap[id]
                kept == {j \in DOMAIN old :
                           Permanent(old[j]) \/ old[j].expiresRound > round}
            IN  /\ Len(buffMap[id]) = Cardinality(kept)
                /\ \A j \in kept :
                     buffMap[id][Cardinality({i \in kept : i <= j})] = old[j]

\* a round start at which one unit lost an expired instance while the ledger of
\* another kept its permanent one
C20_Witness ==
  /\ pc = "actors" /\ idx = 1
  /\ \E id \in DOMAIN buffMap : Len(buffMap[id]) < Len(prev.buffMap[id])
  /\ \E id \in DOMAIN buffMap :
       /\ buffMap[id] # <<>>
       /\ buffMap[id] = prev.buffMap[id]
       /\ \E j \in DOMAIN buffMap[id] : Permanent(buffMap[id][j])

\* the calls made so far for the buff buffId on the unit targetId
CallsFor(targetId, buffId) ==
  {k \in DOMAIN applied :
     /\ applied[k].op = "addBuff"
     /\ applied[k].targetId = targetId /\ applied[k].buffId = buffId}

RECURSIVE SumStacks(_)
\* the sum of the stacks arguments of the calls numbered in K
SumStacks(K) ==
  IF K = {} THEN 0
  ELSE LET k == CHOOSE x \in K : TRUE
       IN  applied[k].stacks + SumStacks(K \ {k})

\* the cap of the definition: maxStacks, 99 without one
StackCap(buffId) ==
  IF buffId \in DOMAIN LedgerRegistry /\ "maxStacks" \in DOMAIN LedgerRegistry[buffId]
  THEN LedgerRegistry[buffId].maxStacks ELSE DefaultMaxStacks

\* C21: after any sequence of addBuff calls a (target, buffId) that was applied has
\* exactly one instance, whose stacks are the sum of the applied stacks capped at
\* the definition's maxStacks (the first application included) and whose
\* expiresRound is the round of the last application plus the duration; a pair
\* never applied has no instance.
C21_StackCap ==
  (\A k \in DOMAIN applied : applied[k].op = "addBuff") =>
  \A targetId \in LedgerTargets, buffId \in LedgerBuffs :
    LET list == BuffSystem_getBuffs(buffMap, targetId)
        insts == {j \in DOMAIN list : list[j].id = buffId}
        calls == CallsFor(targetId, buffId)
    IN  IF calls = {} THEN insts = {}
        ELSE /\ Cardinality(insts) = 1
             /\ \A j \in insts :
                  /\ list[j].stacks = Min(StackCap(buffId), SumStacks(calls))
                  /\ list[j].stacks <= StackCap(buffId)
                  /\ (buffId \in DOMAIN LedgerRegistry
                      /\ "durationRounds" \in DOMAIN LedgerRegistry[buffId]) =>
                       list[j].expiresRound
                         = applied[MaxOf(calls)].round
                             + LedgerRegistry[buffId].durationRounds

RECURSIVE SumStat(_, _)
\* the sum of the counter field over the units ids
SumStat(ids, field) ==
  IF ids = {} THEN 0
  ELSE LET id == CHOOSE x \in ids : TRUE
       IN  statsById[id][field] + SumStat(ids \ {id}, field)

\* C22: a dealDamage adds the damage applied after the shield to the source's
\* damageDealt and to the target's damageTaken (0 to both for a hit the shield
\* absorbs whole), and in every state the damageDealt of all units sum to the
\* damageTaken of all units.
C22_StatsPostShield ==
  /\ SumStat(DOMAIN statsById, "damageDealt") = SumStat(DOMAIN statsById, "damageTaken")
  /\ (Len(hits) = 1 /\ call # "start") =>
       LET h == hits[1]
           afterShield == Max(0, h.raw - h.shieldBefore)
       IN  /\ statsById[h.sourceId].damageDealt
                = prev.statsById[h.sourceId].damageDealt + afterShield
           /\ statsById[h.targetId].damageTaken
                = prev.statsById[h.targetId].damageTaken + afterShield

\* the actor of the last turn, as it was when the turn began
ActorBefore == findFighter(prev, lastAction.actorId)

\* pickSkill gave the actor of the last turn a skill for which no target was found
CastAbandoned ==
  /\ ActedNow
  /\ pickSkill(prev, ActorBefore) # NoSkill
  /\ resolveSkillTargets(prev, ActorBefore, SKILL_MAP[pickSkill(prev, ActorBefore)]) = <<>>

\* C23: when pickSkill returns a skill and no target is resolved, the turn leaves
\* every cooldown as it was, records no cast (skillCasts, skillCastsById and the
\* cast history unchanged), emits no event of a skill effect, and is a basic
\* attack: one hit of the basic damage on the target selectTarget gives, or no
\* hit when no enemy lives.
C23_AbandonedCast ==
  CastAbandoned =>
    LET id == lastAction.actorId
        target == selectTarget(prev, ActorBefore, EnemyTeam(prev, ActorBefore))
    IN  /\ skillCooldowns = prev.skillCooldowns
        /\ statsById[id].skillCasts = prev.statsById[id].skillCasts
        /\ statsById[id].skillCastsById = prev.statsById[id].skillCastsById
        /\ \A k \in DOMAIN casts : ~(casts[k].round = round /\ casts[k].actorId = id)
        /\ \A k \in NewEvents : log[k].type \in {"actorTurn", "damage", "dead", "battleEnd"}
        /\ IF target = NoFighter THEN hits = <<>>
           ELSE /\ Len(hits) = 1
                /\ hits[1].sourceId = id /\ hits[1].targetId = target.id
                /\ \E r \in RngSamples : hits[1].raw = Max(1, (ActorBefore.atk * Variance(r)) \div 10000)

\* a unit whose heal found nobody wounded has struck an enemy instead
C23_Witness ==
  /\ CastAbandoned
  /\ Len(hits) = 1
  /\ hits[1].sourceId = lastAction.actorId

\* the last turn recorded a skill cast of its actor
CastRecorded ==
  /\ ActedNow
  /\ statsById[lastAction.actorId].skillCasts
       # prev.statsById[lastAction.actorId].skillCasts

\* the archetype precondition of a cast, on the battle before the turn
ArchetypeAllows(actor, skill) ==
  LET allies == AllyTeam(prev, actor)
      enemies == EnemyTeam(prev, actor)
      livingEnemies == {i \in DOMAIN enemies : enemies[i].hp > 0}
  IN  CASE actor.heroClass = "support" ->
             \E i \in DOMAIN allies : allies[i].hp > 0 /\ allies[i].hp < allies[i].maxHp
        [] actor.heroClass = "tank" ->
             \A j \in DOMAIN BuffSystem_getBuffs(prev.buffMap, actor.id) :
               BuffSystem_getBuffs(prev.buffMap, actor.id)[j].id # "taunt"
        [] actor.heroClass = "assassin" ->
             \E i \in livingEnemies :
               enemies[i].hp * 100 <= skill.params.executeThreshold * enemies[i].maxHp
        [] actor.heroClass \in {"warrior", "mage"} -> Cardinality(livingEnemies) >= 2
        [] OTHER -> TRUE

\* C24: a turn that records a skill cast records exactly one, of the actor's skill,
\* which the table knows as an active skill, whose cooldown for the actor was 0 and
\* whose archetype precondition held when the turn began; a turn of an actor whose
\* skill id is not in the table, or is not active, records no cast, sets no
\* cooldown and is a basic attack.
C24_CastPreconditions ==
  /\ CastRecorded =>
       LET a == ActorBefore
           rec == casts[Len(casts)]
       IN  /\ statsById[a.id].skillCasts = prev.statsById[a.id].skillCasts + 1
           /\ rec.actorId = a.id /\ rec.round = round
           /\ a.skills # <<>> /\ rec.skillId = a.skills[1]
           /\ rec.skillId \in DOMAIN SKILL_MAP
           /\ SKILL_MAP[rec.skillId].kind = "active"
           /\ MapGet(MapGet(prev.skillCooldowns, a.id, EmptyMap), rec.skillId, 0) = 0
           /\ ArchetypeAllows(a, SKILL_MAP[rec.skillId])
  /\ (/\ ActedNow
      /\ ActorBefore.skills # <<>>
      /\ \/ ActorBefore.skills[1] \notin DOMAIN SKILL_MAP
         \/ SKILL_MAP[ActorBefore.skills[1]].kind # "active") =>
       LET target == selectTarget(prev, ActorBefore, EnemyTeam(prev, ActorBefore))
       IN  /\ ~CastRecorded
           /\ skillCooldowns = prev.skillCooldowns
           /\ \A k \in NewEvents :
                log[k].type \in {"actorTurn", "damage", "dead", "battleEnd"}
           /\ IF target = NoFighter THEN hits = <<>>
              ELSE /\ Len(hits) = 1
                   /\ hits[1].sourceId = ActorBefore.id
                   /\ hits[1].targetId = target.id

\* a unit whose skill id the table does not have makes its basic attack in a
\* battle in which an assassin has cast on a wounded enemy
C24_Witness ==
  /\ ActedNow
  /\ ActorBefore.skills # <<>>
  /\ ActorBefore.skills[1] \notin DOMAIN SKILL_MAP
  /\ Len(hits) = 1
  /\ \E k \in DOMAIN casts : findFighter(Cur, casts[k].actorId).heroClass = "assassin"

\* the last direct call of an entry point
LastCall == applied[Len(applied)]

\* the target of the last direct call was no unit of the battle, or a unit at 0 HP
TargetGone ==
  LET all == prev.teamA \o prev.teamB
  IN  \A i \in DOMAIN all : all[i].id = LastCall.targetId => all[i].hp <= 0

\* C25: dealDamage, heal and applyShield called with a target id that is unknown
\* or whose HP is 0 emit no event and leave HP, shields, buffs, cooldowns and
\* every counter of every unit as they were.
C25_DeadOrUnknownNoOp ==
  (call = "effect" /\ TargetGone) =>
    /\ Len(log) = prev.logLen
    /\ teamA = prev.teamA /\ teamB = prev.teamB
    /\ shieldById = prev.shieldById
    /\ buffMap = prev.buffMap
    /\ skillCooldowns = prev.skillCooldowns
    /\ statsById = prev.statsById
    /\ round = prev.round /\ over = prev.over

\* heal was called for a unit that a hit of the battle had killed, with a source
\* the battle knows
C25_Witness ==
  /\ call = "effect" /\ TargetGone
  /\ LastCall.op = "heal"
  /\ LastCall.sourceId \in DOMAIN statsById
  /\ \E k \in LogIndex("dead") : log[k].targetId = LastCall.targetId

\* l is the beginning of m
IsPrefix(l, m) == Len(l) <= Len(m) /\ SubSeq(m, 1, Len(l)) = l

\* C26: getEventLog() returns exactly the engine's log, which begins with the one
\* battleStart event of the battle started last (start() leaves nothing of the
\* battle before), and which a step only appends to; adding to or removing from a
\* returned array leaves the engine's log, and so every later return, as it was.
C26_EventLog ==
  /\ setup # NoSetup => log # <<>> /\ LogIndex("battleStart") = {1}
  /\ call = "start" => Len(log) = 1
  /\ (call = "step" /\ entry # NoEntry) => IsPrefix(entry.log, log)
  /\ call = "getEventLog" =>
       /\ eventLogCopy.events = log
       /\ Len(log) = prev.logLen
  /\ call = "hostEdit" => log = eventLogCopy.logBefore

\* the log under the calls the host makes on its own: start() leaves battleStart
\* alone, init() and emit() add one event to the log as it is, and a step appends
\* to it
DirectLog ==
  /\ call = "start" => Len(log) = 1 /\ LastEvent.type = "battleStart"
  /\ call \in {"init", "emit"} => Len(log) = prev.logLen + 1
  /\ call = "init" => LastEvent.type = "battleStart"
  /\ call = "emit" => LastEvent = ForgedEvent
  /\ (call = "step" /\ entry # NoEntry) => IsPrefix(entry.log, log)

\* the host edits the array it got in the battle before: the engine's log holds
\* the new battle's battleStart alone
C26_Witness ==
  /\ call = "hostEdit"
  /\ Len(log) = 1
  /\ Len(eventLogCopy.events) > 2

\* the round-start phases of a round have just run
RoundStarted == pc = "actors" /\ idx = 1

\* the unit carried, before the step, a burn that outlives the expiry pass of round r
BurnOutlives(id, r) ==
  \E j \in DOMAIN BuffSystem_getBuffs(prev.buffMap, id) :
     LET inst == BuffSystem_getBuffs(prev.buffMap, id)[j]
     IN  inst.id = "burn" /\ (Permanent(inst) \/ inst.expiresRound > r)

\* the unit carried, before the step, a burn that expires in round r
BurnExpires(id, r) ==
  \E j \in DOMAIN BuffSystem_getBuffs(prev.buffMap, id) :
     LET inst == BuffSystem_getBuffs(prev.buffMap, id)[j]
     IN  inst.id = "burn" /\ ~Permanent(inst) /\ inst.expiresRound = r

\* the (actor, skill) pairs of the cooldown table before or after the step
CooldownPairs ==
  {p \in (DOMAIN skillCooldowns \cup DOMAIN prev.skillCooldowns) \X DOMAIN SKILL_MAP :
     TRUE}

\* C27: the round-start phases of round n emit roundStart(n) first and then only
\* the damage and dead events of the burn ticks, before any actorTurn(n); a living
\* unit is ticked exactly if it carries a burn that the expiry pass of round n
\* leaves (a burn with expiresRound = n does not tick); the round start takes 1
\* off every cooldown, and an actor's turn opens with its actorTurn event and
\* leaves the cooldown of a skill cast in it at the configured value C, so that
\* the first decrement comes with the next round start.
C27_PhaseOrder ==
  /\ RoundStarted =>
       /\ round = prev.round + 1
       /\ Len(log) > prev.logLen
       /\ log[prev.logLen + 1] = [type |-> "roundStart", round |-> round]
       /\ \A k \in NewEvents \ {prev.logLen + 1} : log[k].type \in {"damage", "dead"}
       /\ \A i \in DOMAIN getAllAlive(prev) :
            LET id == getAllAlive(prev)[i].id
            IN  (\E h \in DOMAIN hits : hits[h].targetId = id)
                  <=> BurnOutlives(id, round)
       /\ \A p \in CooldownPairs :
            getCooldown(Cur, p[1], p[2]) = Max(0, getCooldown(prev, p[1], p[2]) - 1)
  /\ (pc = "actors" /\ lastAction.kind \in {"basic", "skill"}) =>
       /\ round = prev.round
       /\ Len(log) > prev.logLen
       /\ log[prev.logLen + 1].type = "actorTurn"
       /\ log[prev.logLen + 1].round = round
       /\ \A k \in NewEvents : log[k].type # "roundStart"
       /\ \A p \in CooldownPairs :
            getCooldown(Cur, p[1], p[2]) =
              IF lastAction.kind = "skill" /\ p = <<lastAction.actorId, lastAction.skillId>>
                 /\ SKILL_MAP[p[2]].cooldown > 0
              THEN SKILL_MAP[p[2]].cooldown
              ELSE getCooldown(prev, p[1], p[2])

\* a round starts in which a living unit's burn expires, another unit's burn
\* ticks, and a cooldown set in the round before is taken down for the first time
C27_Witness ==
  /\ RoundStarted
  /\ \E i \in DOMAIN getAllAlive(prev) : BurnExpires(getAllAlive(prev)[i].id, round)
  /\ hits # <<>>
  /\ \E k \in DOMAIN casts :
       /\ casts[k].round = round - 1
       /\ getCooldown(Cur, casts[k].actorId, casts[k].skillId)
            = SKILL_MAP[casts[k].skillId].cooldown - 1

\* the events of the last step
NewLog == SubSeq(log, prev.logLen + 1, Len(log))

DamageEvents == SelectSeq(NewLog, LAMBDA e : e.type = "damage")

DeadEvents == SelectSeq(NewLog, LAMBDA e : e.type = "dead")

\* the hits of the last step that the shield did not take whole
PiercingHits == SelectSeq(hits, LAMBDA h : h.raw > h.shieldBefore)

\* the hits of the last step that took the target's last HP
KillingHits == SelectSeq(hits, LAMBDA h : h.raw - h.shieldBefore >= h.hpBefore)

\* C28: the damage events of a step are, in order, those of its hits that exceed
\* the target's shield: each carries the hit's source and target, as amount the
\* part the shield did not absorb (at least 1) and as targetHp the target's HP
\* after the hit; the dead events are those of the hits that took the last HP, so
\* a hit absorbed whole emits neither a damage nor a dead event.
C28_DamageEvent ==
  /\ Len(DamageEvents) = Len(PiercingHits)
  /\ \A i \in DOMAIN DamageEvents :
       LET e == DamageEvents[i]
           h == PiercingHits[i]
       IN  /\ e.sourceId = h.sourceId
           /\ e.targetId = h.targetId
           /\ e.amount = h.raw - h.shieldBefore
           /\ e.amount >= 1
           /\ e.targetHp = Max(0, h.hpBefore - e.amount)
  /\ Len(DeadEvents) = Len(KillingHits)
  /\ \A i \in DOMAIN DeadEvents : DeadEvents[i].targetId = KillingHits[i].targetId

\* a step with a hit that the shield takes whole and a hit that costs HP
C28_Witness ==
  /\ \E i \in DOMAIN hits : hits[i].raw <= hits[i].shieldBefore
  /\ DamageEvents # <<>>
  /\ Len(DamageEvents) < Len(hits)

\* the expiry the buff definition gives a buff applied in round r: 0 for none
DefinitionExpiry(buffId, r) ==
  IF buffId \in DOMAIN BuffRegistry /\ "durationRounds" \in DOMAIN BuffRegistry[buffId]
  THEN r + BuffRegistry[buffId].durationRounds
  ELSE 0

\* C29: a buff applied by an apply_buff skill in round r expires at round r + d
\* when the skill configures a duration d > 0, whatever the buff definition says,
\* and as the buff definition says when the skill configures none.
C29_BuffDuration ==
  (lastAction.kind = "skill" /\ SKILL_MAP[lastAction.skillId].effect = "apply_buff"
     /\ Param(SKILL_MAP[lastAction.skillId], "buffId", "") # "") =>
    LET buffId == Param(SKILL_MAP[lastAction.skillId], "buffId", "")
        d == Param(SKILL_MAP[lastAction.skillId], "duration", 0)
        expiry == IF d > 0 THEN round + d ELSE DefinitionExpiry(buffId, round)
    IN  \A i \in DOMAIN lastAction.targets :
          LET list == BuffSystem_getBuffs(buffMap, lastAction.targets[i].id)
          IN  \E j \in DOMAIN list :
                /\ list[j].id = buffId
                /\ IF expiry = 0 THEN Permanent(list[j])
                   ELSE ~Permanent(list[j]) /\ list[j].expiresRound = expiry

\* the roster slots of the living
LivingSlots(team) == {i \in DOMAIN team : team[i].hp > 0}

LeastOf(S) == CHOOSE x \in S : \A y \in S : x <= y

\* the slot of the living unit at the lowest share of its HP, the one of the
\* smallest id among equals
LowestSlot(team) ==
  CHOOSE i \in LivingSlots(team) :
    \A j \in LivingSlots(team) \ {i} :
       \/ FracLess(team[i], team[j])
       \/ FracEq(team[i], team[j]) /\ localeCompare(team[i].id, team[j].id) < 0

\* the basic-attack target the archetype c is to get in the roster team
ExpectedTarget(c, team) ==
  IF LivingSlots(team) = {} THEN NoFighter
  ELSE CASE c = "assassin" -> team[LowestSlot(team)]
         [] c \in {"warrior", "tank", "mage", "support"} ->
              IF LivingSlots(team) \cap (1..FrontSlots) # {}
              THEN team[LeastOf(LivingSlots(team) \cap (1..FrontSlots))]
              ELSE team[LeastOf(LivingSlots(team))]
         [] OTHER -> team[LeastOf(LivingSlots(team))]

\* C30: when no living enemy holds a taunt, selectTarget gives an assassin the
\* living enemy at the lowest share of its HP (the one of the smallest id among
\* equals), a warrior, tank, mage or support the first living enemy of the two
\* front slots and, if none lives there, the first living enemy of the roster,
\* any other archetype the first living enemy of the roster, and nobody exactly
\* if no enemy lives; a basic attack hits that unit, and none if there is nobody.
C30_BasicTarget ==
  /\ \A i \in DOMAIN AllNow : \A c \in HeroClasses :
       AllNow[i].hp > 0 =>
         LET actor == AsClass(AllNow[i], c)
             enemy == EnemyTeam(Cur, actor)
         IN  Taunting(Cur, Alive(enemy)) = <<>> =>
               /\ selectTarget(Cur, actor, enemy) = ExpectedTarget(c, enemy)
               /\ selectTarget(Cur, actor, enemy) = NoFighter
                    <=> LivingSlots(enemy) = {}
  /\ lastAction.kind = "basic" =>
       LET enemy == EnemyTeam(prev, ActorBefore)
           expected == ExpectedTarget(ActorBefore.heroClass, enemy)
       IN  Taunting(prev, Alive(enemy)) = <<>> =>
             /\ lastAction.targets
                  = IF expected = NoFighter THEN <<>> ELSE <<expected>>
             /\ IF expected = NoFighter THEN hits = <<>>
                ELSE Len(hits) = 1 /\ hits[1].targetId = expected.id

\* an assassin's basic attack goes to a unit that stands at the same share of its
\* HP as a living unit of an earlier slot, whose id is greater
C30_Witness ==
  /\ lastAction.kind = "basic"
  /\ ActorBefore.heroClass = "assassin"
  /\ Len(hits) = 1
  /\ LET enemy == EnemyTeam(prev, ActorBefore)
     IN  \E i, j \in LivingSlots(enemy) :
           /\ i < j
           /\ FracEq(enemy[i], enemy[j])
           /\ localeCompare(enemy[j].id, enemy[i].id) < 0
           /\ hits[1].targetId = enemy[j].id

\* the slot of the unit id in the roster team
SlotOf(team, id) == CHOOSE k \in DOMAIN team : team[k].id = id

\* t stands behind the front line of the roster team
BehindFront(team, t) == SlotOf(team, t.id) > FrontSlots

\* x is to be listed before y by an actor of archetype c: by the share of HP for
\* an assassin, else front line first and then by id
ListedBefore(c, team, x, y) ==
  IF c = "assassin" THEN FracLess(x, y)
  ELSE \/ ~BehindFront(team, x) /\ BehindFront(team, y)
       \/ /\ BehindFront(team, x) = BehindFront(team, y)
          /\ localeCompare(x.id, y.id) < 0

\* the properties of a list L returned for an actor of archetype c, the roster
\* team and the cap m (0: none) in the battle b
AoeListOk(b, c, team, m, L) ==
  LET living == {team[k].id : k \in LivingSlots(team)}
      taunters == LivingTaunters(b, team)
      listed == {L[i].id : i \in DOMAIN L}
  IN  /\ \A i \in DOMAIN L : L[i].id \in living /\ L[i] = team[SlotOf(team, L[i].id)]
      /\ \A i, j \in DOMAIN L : i # j => L[i].id # L[j].id
      /\ Len(L) = IF m > 0 THEN Min(m, Cardinality(living)) ELSE Cardinality(living)
      /\ \A i, j \in DOMAIN L :
           i < j => ~(L[j].id \in taunters /\ L[i].id \notin taunters)
      /\ listed \ taunters # {} => taunters \subseteq listed
      /\ \A i, j \in DOMAIN L :
           (i < j /\ L[i].id \notin taunters /\ L[j].id \notin taunters)
             => ~ListedBefore(c, team, L[j], L[i])
      /\ \A i \in DOMAIN L : \A k \in LivingSlots(team) :
           (L[i].id \notin taunters /\ team[k].id \notin taunters
              /\ team[k].id \notin listed)
             => ~ListedBefore(c, team, team[k], L[i])

\* C31: the list selectAoeTargets returns holds living enemies only, none twice,
\* min(maxTargets, living) of them when maxTargets is given and all the living
\* otherwise, every living taunter before any other unit, and after the taunters
\* the others by ascending share of HP for an assassin, front line first and then
\* by ascending id for any other actor; an enemy_aoe cast goes to that list.
C31_AoeTargets ==
  /\ \A i \in DOMAIN AllNow : \A c \in HeroClasses : \A m \in 0..MaxFighters :
       AllNow[i].hp > 0 =>
         LET actor == AsClass(AllNow[i], c)
             enemy == EnemyTeam(Cur, actor)
         IN  AoeListOk(Cur, c, enemy, m, selectAoeTargets(Cur, actor, enemy, m))
  /\ (lastAction.kind = "skill"
        /\ SKILL_MAP[lastAction.skillId].target = "enemy_aoe") =>
       AoeListOk(prev, ActorBefore.heroClass, EnemyTeam(prev, ActorBefore),
                 Max(0, Param(SKILL_MAP[lastAction.skillId], "maxTargets", 0)),
                 lastAction.targets)

\* a capped area skill is cast on a roster of a taunter in the last slot and two
\* living units before it: the list is the taunter, then the front unit of the
\* lower id, which stands in the second slot
C31_Witness ==
  /\ lastAction.kind = "skill"
  /\ lastAction.skillId = "cleave"
  /\ ActorBefore.heroClass = "warrior"
  /\ Len(lastAction.targets) = 2
  /\ lastAction.targets[1].id = "b2"
  /\ lastAction.targets[1].id \in LivingTaunters(prev, EnemyTeam(prev, ActorBefore))
  /\ lastAction.targets[2].id = "b1"
  /\ EnemyTeam(prev, ActorBefore)[1].hp > 0

\* C32: an update() call on a battle that is over changes nothing; on a running
\* battle it runs one round exactly if the dt accumulated since the last step (or
\* since start()) reaches stepIntervalTicks with it, the accumulator then being
\* reset to 0, and otherwise only adds dt to the accumulator; so the rounds run
\* are at most the dt of all calls divided by the interval, and a log that holds
\* battleEnd ends with it.
C32_UpdatePacing ==
  /\ stepAcc \in 0..(StepIntervalTicks - 1)
  /\ round * StepIntervalTicks <= ticks.total
  /\ LogIndex("battleEnd") # {} => over /\ LastEvent.type = "battleEnd"
  /\ (pc = "idle" /\ call = "update") =>
       IF entry.over
       THEN Cur = entry /\ stepAcc = ticks.acc
       ELSE IF ticks.acc + ticks.dt >= StepIntervalTicks
            THEN /\ round = entry.round + 1
                 /\ stepAcc = 0
                 /\ Cardinality({k \in LogIndex("roundStart") : k > Len(entry.log)}) = 1
            ELSE Cur = entry /\ stepAcc = ticks.acc + ticks.dt

\* an update() that only accumulates after a round was run, one that runs the
\* round that ends the battle, and one that finds the battle over
C32_Witness ==
  /\ pc = "idle" /\ call = "update"
  /\ entry.over
  /\ round >= 2
  /\ ticks.total > round * StepIntervalTicks + 1

\* stepRound has returned
RoundCompleted == pc \in {"idle", "loop"} /\ round >= 1

\* C33: when a round of a battle between two rosters completes with no living
\* member on teamA or on teamB, the battle is over, whether the last members fell
\* to an action or to the burn ticks of the round start, on one side or on both.
C33_WipedSideEndsBattle ==
  (/\ RoundCompleted
   /\ teamA # <<>> /\ teamB # <<>>
   /\ ~SideAlive(teamA) \/ ~SideAlive(teamB)) => over

\* the buffAdd or buffRemove events (type) for the unit id and the buff buffId
BuffEvents(type, id, buffId) ==
  {k \in LogIndex(type) : log[k].targetId = id /\ log[k].buffId = buffId}

\* the unit id came into the battle with the buff buffId (battleStart payload)
StartsWith(id, buffId) ==
  \E i \in DOMAIN (log[1].teamA \o log[1].teamB) :
     LET f == (log[1].teamA \o log[1].teamB)[i]
     IN  f.id = id /\ \E j \in DOMAIN f.buffs : f.buffs[j] = buffId

\* what a consumer of the log holds the unit id to carry
ShownToCarry(id, buffId) ==
  LET adds == BuffEvents("buffAdd", id, buffId)
      removes == BuffEvents("buffRemove", id, buffId)
  IN  IF adds \cup removes = {} THEN StartsWith(id, buffId)
      ELSE MaxOf(adds \cup removes) \in adds

\* C34: the buffs reconstructed from the battleStart payload and the buffAdd and
\* buffRemove events are the buffs of the ledger: a buff that a buffAdd announced
\* leaves the ledger, by the expiry pass too, only with a buffRemove event.
C34_BuffEventsMirrorLedger ==
  setup # NoSetup =>
    \A id \in DOMAIN buffMap : \A buffId \in DOMAIN BuffRegistry :
       (BuffEvents("buffAdd", id, buffId) # {}) =>
         (ShownToCarry(id, buffId) <=> hasBuff(Cur, id, buffId))

\* C35: every entry of the shield map is a positive integer and belongs to a unit
\* of the roster with HP above 0: a hit takes HP only after the whole shield, and
\* applyShield does nothing on a dead unit.
C35_ShieldsOfTheLiving ==
  \A id \in DOMAIN shieldById :
     /\ shieldById[id] \in Nat
     /\ shieldById[id] > 0
     /\ HasFighter(Cur, id)
     /\ findFighter(Cur, id).hp > 0

\* a unit died of a hit that first took its whole shield
C35_Witness ==
  \E i \in DOMAIN hits :
     /\ hits[i].shieldBefore > 0
     /\ findFighter(Cur, hits[i].targetId).hp = 0
     /\ hits[i].targetId \notin DOMAIN shieldById

\* the casts the last turn recorded for its actor
CastsOfTurn ==
  statsById[lastAction.actorId].skillCasts
    - prev.statsById[lastAction.actorId].skillCasts

\* C36: no unit has two actorTurn events in one round, and a turn, which opens
\* with the actor's actorTurn event, resolves one action: either one cast is
\* recorded and the hits are those of the skill alone (one per target of a damage
\* skill, none for any other), or no cast is recorded and the actor makes its one
\* basic attack, which fails to come only when no enemy lives.
C36_OneActionPerTurn ==
  /\ \A k1, k2 \in LogIndex("actorTurn") :
       (log[k1].round = log[k2].round /\ log[k1].actorId = log[k2].actorId) => k1 = k2
  /\ (pc = "actors" /\ ActedNow) =>
       /\ {k \in NewEvents : log[k].type = "actorTurn"} = {prev.logLen + 1}
       /\ log[prev.logLen + 1].actorId = lastAction.actorId
       /\ log[prev.logLen + 1].round = round
       /\ \A id \in DOMAIN statsById :
            id # lastAction.actorId =>
              statsById[id].skillCasts = prev.statsById[id].skillCasts
       /\ CastsOfTurn \in {0, 1}
       /\ CastsOfTurn = 1 =>
            /\ casts # <<>>
            /\ casts[Len(casts)].actorId = lastAction.actorId
            /\ casts[Len(casts)].round = round
            /\ Len(hits) = IF SKILL_MAP[casts[Len(casts)].skillId].effect = "damage"
                           THEN Len(lastAction.targets) ELSE 0
       /\ CastsOfTurn = 0 =>
            IF Alive(EnemyTeam(prev, ActorBefore)) = <<>>
            THEN hits = <<>>
            ELSE /\ Len(hits) = 1
                 /\ hits[1].sourceId = lastAction.actorId
                 /\ \E i \in DOMAIN EnemyTeam(prev, ActorBefore) :
                      EnemyTeam(prev, ActorBefore)[i].id = hits[1].targetId

\* a unit that cast a damage skill in one round makes its basic attack in the next
C36_Witness ==
  /\ pc = "actors" /\ ActedNow
  /\ CastsOfTurn = 0
  /\ Len(hits) = 1
  /\ \E k \in DOMAIN casts :
       /\ casts[k].actorId = lastAction.actorId
       /\ casts[k].round = round - 1
       /\ SKILL_MAP[casts[k].skillId].effect = "damage"

\* the unit a death by the hit h is to be credited to: the attacker, or, for a
\* tick of a burn that a skill applied, the unit that applied it
CreditedFor(h) ==
  IF RoundStarted /\ BurnAdds(h.targetId) # {}
  THEN log[MaxOf(BurnAdds(h.targetId))].sourceId
  ELSE h.sourceId

\* the hits of the last step that killed and are to be credited to the unit id
KillsDue(id) == SelectSeq(KillingHits, LAMBDA h : CreditedFor(h) = id)

\* C37: the kills counters of all units sum to the number of dead events of the
\* battle, and each death of a step adds one to the kills of one unit of the
\* roster: the attacker, or for a death by a burn tick the unit that applied the
\* burn.
C37_KillsMatchDeaths ==
  /\ SumStat(DOMAIN statsById, "kills") = Cardinality(LogIndex("dead"))
  /\ hits # <<>> =>
       /\ \A h \in DOMAIN KillingHits : HasFighter(Cur, CreditedFor(KillingHits[h]))
       /\ \A id \in DOMAIN statsById :
            statsById[id].kills = prev.statsById[id].kills + Len(KillsDue(id))

\* the part of C37 the counters do satisfy: as many kills as dead events
C37_KillsSum ==
  SumStat(DOMAIN statsById, "kills") = Cardinality(LogIndex("dead"))

\* the buffAdd events of the last step
NewBuffAdds == {k \in NewEvents : log[k].type = "buffAdd"}

\* the ledger holds for the unit id an instance it did not hold before the last step
LedgerGain(id) ==
  LET old == BuffSystem_getBuffs(prev.buffMap, id)
      new == BuffSystem_getBuffs(buffMap, id)
  IN  \E j \in DOMAIN new :
        \A i \in DOMAIN old :
           \/ old[i].id # new[j].id
           \/ old[i].stacks # new[j].stacks
           \/ DOMAIN old[i] # DOMAIN new[j]
           \/ ("expiresRound" \in DOMAIN old[i] /\ old[i].expiresRound # new[j].expiresRound)

\* the unit id is on the roster and alive, before the last step and after it
LivingMember(id) ==
  /\ HasFighter(prev, id) /\ findFighter(prev, id).hp > 0
  /\ HasFighter(Cur, id) /\ findFighter(Cur, id).hp > 0

\* C38: in the steps of a round every buffAdd event names a living unit of the
\* roster, the ledger has entries for roster units only, and the unit whose
\* ledger entry gained an instance or a stack is a living unit of the roster
\* named by a buffAdd event of the step.
C38_BuffsOnTheLiving ==
  pc = "actors" =>
    /\ \A k \in NewBuffAdds : LivingMember(log[k].targetId)
    /\ \A id \in DOMAIN buffMap : HasFighter(Cur, id)
    /\ \A id \in DOMAIN buffMap :
         LedgerGain(id) =>
           /\ LivingMember(id)
           /\ \E k \in NewBuffAdds : log[k].targetId = id

\* a buff skill was cast on a side that has a dead unit: the living were buffed
C38_Witness ==
  /\ pc = "actors" /\ lastAction.kind = "skill"
  /\ NewBuffAdds # {}
  /\ \E k \in NewBuffAdds :
       /\ LedgerGain(log[k].targetId)
       /\ \E i \in DOMAIN AllNow :
            /\ AllNow[i].side = findFighter(Cur, log[k].targetId).side
            /\ AllNow[i].hp = 0

\* the HP the hit h took from its target
HpLost(h) == Min(h.hpBefore, Max(0, h.raw - h.shieldBefore))

\* the HP the hits of the list hs took from the unit id
RECURSIVE HpLostBy(_, _)
HpLostBy(id, hs) ==
  IF hs = <<>> THEN 0
  ELSE (IF Head(hs).targetId = id THEN HpLost(Head(hs)) ELSE 0) + HpLostBy(id, Tail(hs))

\* C39: the amount of every damage event is the target's HP before the hit minus
\* the HP the event reports, and a step adds to each unit's damageTaken the HP
\* its hits took from the unit.
C39_DamageIsHpLost ==
  hits # <<>> =>
    /\ Len(DamageEvents) = Len(PiercingHits)
    /\ \A i \in DOMAIN DamageEvents :
         i <= Len(PiercingHits) =>
           DamageEvents[i].amount = PiercingHits[i].hpBefore - DamageEvents[i].targetHp
    /\ \A id \in DOMAIN statsById :
         statsById[id].damageTaken
           = prev.statsById[id].damageTaken + HpLostBy(id, hits)

====
